---- MODULE Spec2Model ----
(***************************************************************************)
(* Model of the forum scraper's entity reconciler, SQLitePipeline          *)
(* (src/forums_scraper/pipelines/database.py), and of the SQLite store it  *)
(* writes: five tables with AUTOINCREMENT keys, the UNIQUE / NOT NULL /    *)
(* FOREIGN KEY constraints of _create_tables, the connection's             *)
(* last_insert_rowid that cursor.lastrowid reports, and the implicit       *)
(* transaction that connection.commit() ends.                              *)
(*                                                                         *)
(* The created_at / updated_at columns are left out: they are filled from  *)
(* the clock and no operation reads them.                                  *)
(*                                                                         *)
(* Spec drives the pipeline with items of every shape the spiders send.    *)
(* SpecCrawl drives it with WiaraSpider (src/forums_scraper/spiders/       *)
(* wiara.py, src/forums_scraper/base_spider.py) crawling a site: a page is *)
(* what the spider's selectors find in it, a URL is the string it is.      *)
(* SpecHelpers calls the spider's URL helpers on their own. SpecDriver     *)
(* follows the requests of a crawl alone, under a driver that fetches      *)
(* every request it is given. SpecPair runs two reconcilers side by side   *)
(* on stores of their own and feeds them the same entities at different    *)
(* times. SpecScrape is the scrape command of src/cli/advanced.py: one     *)
(* crawl process per forum, all writing to the unified store.              *)
(***************************************************************************)
EXTENDS Integers, Sequences, FiniteSets, TLC

VARIABLES
    pipeline,   \* the SQLitePipeline object: connection, its view of the tables, the caches
    disk,       \* the committed content of the SQLite file (survives the process)
    last,       \* what the last call was and how it ended
    nops,       \* process_item calls so far
    runs,       \* open_spider calls so far
    crawl,      \* a crawl of the site: its pages, the driver's pending requests
    probe       \* one call of a helper of the spider: its input and what it returned

vars == <<pipeline, disk, last, nops, runs, crawl, probe>>

\* ---------------------------------------------------------------- bounds

MaxOps == 4       \* process_item calls
MaxRuns == 2      \* crawl processes, one after the other
MaxFetches == 8   \* requests the driver takes in one run
MaxAnchors == 2   \* anchors on the page a pagination helper is called with
MaxRows == 3      \* rows on the page a handler is called with on its own
MaxFed == 3       \* entities fed to each of two reconcilers side by side
MaxTargets == 2   \* forums given to the scrape command

\* ------------------------------------------------------- Python values

\* A Python value as an item field or a column holds it: None, an int or a str.
NoneV == [k |-> "none"]
IntV(n) == [k |-> "int", i |-> n]
StrV(x) == [k |-> "str", s |-> x]

\* bool(v): None, 0 and "" are false.
Truthy(v) == \/ (v.k = "int" /\ v.i # 0)
             \/ (v.k = "str" /\ v.s # "")

\* isinstance(v, str)
IsStr(v) == v.k = "str"

\* item.get(f): None for a field that was never set.
Get(item, f) == IF f \in DOMAIN item THEN item[f] ELSE NoneV

Digits == {"0", "1", "2", "3", "4", "5", "6", "7", "8", "9"}

\* str.isdigit(): non-empty and every character a digit.
IsDigit(x) == /\ Len(x) > 0
              /\ \A n \in 1..Len(x) : SubSeq(x, n, n) \in Digits

DigitVal(c) == CHOOSE d \in 0..9 : ToString(d) = c

RECURSIVE ParseInt(_)
\* int(x) for a string of digits.
ParseInt(x) == IF Len(x) = 0 THEN 0
               ELSE 10 * ParseInt(SubSeq(x, 1, Len(x) - 1))
                    + DigitVal(SubSeq(x, Len(x), Len(x)))

\* ------------------------------------------------------------ dicts

EmptyDict == [x \in {} |-> 0]

\* d[key] = value
Put(d, key, value) == [x \in DOMAIN d \cup {key} |-> IF x = key THEN value ELSE d[x]]

\* d.get(key)
DictGet(d, key) == IF key \in DOMAIN d THEN IntV(d[key]) ELSE NoneV

\* ------------------------------------------------------------ the store

Tables == {"forums", "sections", "threads", "users", "posts"}

\* The schema after _create_tables on a new file: empty tables, and
\* sqlite_sequence (seq) holding the largest rowid each AUTOINCREMENT table
\* has ever used.
EmptyDb == [forums |-> {}, sections |-> {}, threads |-> {}, users |-> {},
            posts |-> {}, seq |-> [t \in Tables |-> 0]]

\* A successful INSERT of one row: the AUTOINCREMENT key is one more than
\* the largest ever used, and the connection's last_insert_rowid becomes it.
ExecInsert_IdFromClock(p, t, cols) ==
    LET id == p.db.seq[t] + 1 + nops
    IN  [p EXCEPT !.db = [@ EXCEPT ![t] = @ \cup {[id |-> id] @@ cols},
                                   !.seq = [@ EXCEPT ![t] = id]],
                  !.last_insert_rowid = id]

ExecInsert(p, t, cols) ==
    LET id == p.db.seq[t] + 1
    IN  [p EXCEPT !.db = [@ EXCEPT ![t] = @ \cup {[id |-> id] @@ cols},
                                   !.seq = [@ EXCEPT ![t] = id]],
                  !.last_insert_rowid = id]

\* Mutant of ExecInsertOrIgnore: the constraint is not there, the row goes in.
ExecInsertOrIgnore_NoConstraint(p, t, cols, violates) == ExecInsert(p, t, cols)

\* INSERT OR IGNORE: a row that violates a UNIQUE or NOT NULL constraint is
\* skipped, and a skipped row leaves last_insert_rowid as it was.
ExecInsertOrIgnore(p, t, cols, violates) ==
    IF violates THEN p ELSE ExecInsert(p, t, cols)

\* url TEXT UNIQUE / username TEXT UNIQUE: NULLs never conflict.
UniqueConflict(rows, col, v) ==
    /\ v.k # "none"
    /\ \E r \in rows : r[col] = v

\* SELECT id FROM <rows> WHERE <col> = ?, then fetchone(): row[0] or None.
\* Comparing with NULL selects nothing.
SelectId(rows, col, v) ==
    LET found == {r.id : r \in {q \in rows : v.k # "none" /\ q[col] = v}}
    IN  IF found = {} THEN NoneV
        ELSE IntV(CHOOSE n \in found : \A m \in found : n <= m)

\* What an operation hands back to process_item.
\* Done: it committed and returned.  Raise: an exception left it before the commit.
Done_NoCommit(p) == [p |-> p, raised |-> FALSE, commit |-> FALSE]

\* The operation ends with connection.commit() and returns.
Done(p) == [p |-> p, raised |-> FALSE, commit |-> TRUE]
Raise(p) == [p |-> p, raised |-> TRUE, commit |-> FALSE]

\* ------------------------------------------------------------ _save_forum

\* Mutant of SaveForum: the row is inserted and committed, the caches are not updated.
SaveForum_NoCache(p, item) ==
    IF Get(item, "spider_name").k = "none"
    THEN Raise(p)
    ELSE Done(ExecInsert(p, "forums",
                         [spider_name |-> Get(item, "spider_name"),
                          title |-> Get(item, "title")]))

SaveForum(p, item) ==
    LET spider_name == Get(item, "spider_name")
        forum_url == Get(item, "url")
        p1 == ExecInsert(p, "forums",
                         [spider_name |-> spider_name, title |-> Get(item, "title")])
        forum_id == p1.last_insert_rowid
        p2 == IF Truthy(spider_name)
              THEN [p1 EXCEPT !.forum_name_to_id = Put(@, spider_name.s, forum_id)]
              ELSE p1
        p3 == IF Truthy(forum_url)
              THEN [p2 EXCEPT !.forum_url_to_id = Put(@, forum_url.s, forum_id)]
              ELSE p2
    IN  IF spider_name.k = "none"
        THEN Raise(p)   \* spider_name TEXT NOT NULL: IntegrityError
        ELSE Done(p3)

\* ---------------------------------------------------------- _save_section

\* Mutant of ResolveForumId: a key in neither cache is stored as it came.
ResolveForumId_KeepsKey(p, forum_id) ==
    IF IsStr(forum_id)
    THEN LET mapped == DictGet(p.forum_name_to_id, forum_id.s)
             by_url == DictGet(p.forum_url_to_id, forum_id.s)
         IN  IF mapped.k # "none" THEN mapped
             ELSE IF by_url.k # "none" THEN by_url
             ELSE forum_id
    ELSE forum_id

\* Lines 221-229: a string forum reference is looked up as a source name,
\* then as a forum URL; a miss in both gives None.
ResolveForumId(p, forum_id) ==
    IF IsStr(forum_id)
    THEN LET mapped == DictGet(p.forum_name_to_id, forum_id.s)
         IN  IF mapped.k # "none" THEN mapped
             ELSE DictGet(p.forum_url_to_id, forum_id.s)
    ELSE forum_id

\* The id the code takes for the row after INSERT OR IGNORE:
\* cursor.lastrowid when it is non-zero, else the SELECT by key.
RowIdAfterInsert(p, t, col, v) ==
    IF p.last_insert_rowid # 0
    THEN IntV(p.last_insert_rowid)
    ELSE SelectId(p.db[t], col, v)

SaveSection(p, item) ==
    LET url == Get(item, "url")
        forum_id == ResolveForumId(p, Get(item, "forum_id"))
        p1 == ExecInsertOrIgnore(p, "sections",
                  [forum_id |-> forum_id, title |-> Get(item, "title"), url |-> url],
                  UniqueConflict(p.db.sections, "url", url))
        section_id == RowIdAfterInsert(p1, "sections", "url", url)
        p2 == IF Truthy(url) /\ section_id.k # "none"
              THEN [p1 EXCEPT !.section_url_to_id = Put(@, url.s, section_id.i)]
              ELSE p1
    IN  Done(p2)

\* ------------------------------------------------------------- _save_user

SaveUser_BackfillsPosts(p, item) ==
    LET username == Get(item, "username")
        p1 == ExecInsertOrIgnore(p, "users",
                  [username |-> username,
                   join_date |-> Get(item, "join_date"),
                   posts_count |-> Get(item, "posts_count"),
                   religion |-> Get(item, "religion"),
                   gender |-> Get(item, "gender"),
                   localization |-> Get(item, "localization")],
                  UniqueConflict(p.db.users, "username", username))
        user_id == RowIdAfterInsert(p1, "users", "username", username)
        p2 == IF Truthy(username) /\ user_id.k # "none"
              THEN [p1 EXCEPT !.user_name_to_id = Put(@, username.s, user_id.i),
                              !.db.posts = {IF q.username = username /\ q.user_id = NoneV
                                            THEN [q EXCEPT !.user_id = user_id] ELSE q :
                                            q \in @}]
              ELSE p1
    IN  Done(p2)

SaveUser(p, item) ==
    LET username == Get(item, "username")
        p1 == ExecInsertOrIgnore(p, "users",
                  [username |-> username,
                   join_date |-> Get(item, "join_date"),
                   posts_count |-> Get(item, "posts_count"),
                   religion |-> Get(item, "religion"),
                   gender |-> Get(item, "gender"),
                   localization |-> Get(item, "localization")],
                  UniqueConflict(p.db.users, "username", username))
        user_id == RowIdAfterInsert(p1, "users", "username", username)
        p2 == IF Truthy(username) /\ user_id.k # "none"
              THEN [p1 EXCEPT !.user_name_to_id = Put(@, username.s, user_id.i)]
              ELSE p1
    IN  Done(p2)

\* ----------------------------------------------------------- _save_thread

\* INTEGER column affinity: text that is a well-formed integer is stored as
\* that integer, any other text is stored as text.
Affinity(v) == IF IsStr(v) /\ IsDigit(v.s) THEN IntV(ParseInt(v.s)) ELSE v

\* FOREIGN KEY (section_id) REFERENCES sections (id), with foreign_keys = ON.
SectionExists(db, section_id) ==
    /\ section_id.k = "int"
    /\ \E r \in db.sections : r.id = section_id.i

\* Mutant of ResolveSection: the placeholder is inserted without looking the
\* URL up first, and the cache is left alone.
ResolveSection_NoLookup(p, item) ==
    LET section_id == Get(item, "section_id")
        section_url == Get(item, "section_url")
        placeholder == ExecInsert(p, "sections",
                           [forum_id |-> NoneV,
                            title |-> Get(item, "section_title"),
                            url |-> section_url])
        mapped == DictGet(p.section_url_to_id, section_id.s)
    IN  IF ~Truthy(section_id)
        THEN IF Truthy(section_url)
             THEN [p |-> placeholder, section_id |-> IntV(placeholder.last_insert_rowid)]
             ELSE [p |-> p, section_id |-> section_id]
        ELSE IF IsStr(section_id)
        THEN [p |-> p, section_id |-> IF mapped.k # "none" THEN mapped ELSE section_id]
        ELSE [p |-> p, section_id |-> section_id]

\* Lines 261-298: the section the thread is stored under, and the pipeline
\* after the lookups, the placeholder insert and the cache update.
ResolveSection(p, item) ==
    LET section_id == Get(item, "section_id")
        section_url == Get(item, "section_url")
        row == SelectId(p.db.sections, "url", section_url)
        placeholder == ExecInsert(p, "sections",
                           [forum_id |-> NoneV,
                            title |-> Get(item, "section_title"),
                            url |-> section_url])
        p1 == IF Truthy(section_url) /\ row.k = "none" THEN placeholder ELSE p
        sid == IF ~Truthy(section_url) THEN section_id
               ELSE IF row.k # "none" THEN row
               ELSE IntV(placeholder.last_insert_rowid)
        mapped == DictGet(p.section_url_to_id, section_id.s)
    IN  IF ~Truthy(section_id)
        THEN [p |-> IF Truthy(section_url) /\ Truthy(sid)
                    THEN [p1 EXCEPT !.section_url_to_id = Put(@, section_url.s, sid.i)]
                    ELSE p1,
              section_id |-> sid]
        ELSE IF IsStr(section_id)
        THEN [p |-> p, section_id |-> IF mapped.k # "none" THEN mapped ELSE section_id]
        ELSE [p |-> p, section_id |-> section_id]

\* A value sqlite3 cannot bind as a parameter: execute raises
Unbindable(v) == v.k = "list"

ThreadColumns ==
    {"title", "url", "author", "replies", "views", "last_post_date", "last_post_author"}

SaveThread(p, item) ==
    LET res == ResolveSection(p, item)
        p1 == res.p
        section_id == Affinity(res.section_id)
        url == Get(item, "url")
        \* section_id INTEGER NOT NULL, url TEXT UNIQUE: the row is skipped
        skipped == \/ section_id.k = "none"
                   \/ UniqueConflict(p1.db.threads, "url", url)
        p2 == ExecInsertOrIgnore(p1, "threads",
                  [section_id |-> section_id,
                   title |-> Get(item, "title"),
                   url |-> url,
                   author |-> Get(item, "author"),
                   replies |-> Get(item, "replies"),
                   views |-> Get(item, "views"),
                   last_post_date |-> Get(item, "last_post_date"),
                   last_post_author |-> Get(item, "last_post_author")],
                  skipped)
        thread_id == RowIdAfterInsert(p2, "threads", "url", url)
        p3 == IF Truthy(url) /\ thread_id.k # "none"
              THEN [p2 EXCEPT !.thread_url_to_id = Put(@, url.s, thread_id.i)]
              ELSE p2
    IN  IF \E c \in ThreadColumns : Unbindable(Get(item, c))
        THEN Raise(p1)   \* the thread insert fails: Error binding parameter
        ELSE IF ~skipped /\ ~SectionExists(p1.db, section_id)
        THEN Raise(p1)   \* IntegrityError: FOREIGN KEY constraint failed
        ELSE Done(p3)

\* ------------------------------------------------------------- _save_post

\* A Python list, as content_urls carries it.
ListV(xs) == [k |-> "list", l |-> xs]

RECURSIVE JoinQuoted(_)
JoinQuoted(xs) ==
    IF Len(xs) = 0 THEN ""
    ELSE IF Len(xs) = 1 THEN "\"" \o Head(xs) \o "\""
    ELSE "\"" \o Head(xs) \o "\", " \o JoinQuoted(Tail(xs))

\* json.dumps(list(content_urls), ensure_ascii=False) for a list of strings
JsonDumps(xs) == "[" \o JoinQuoted(xs) \o "]"

\* UNIQUE (thread_id, post_number): the rows a new row conflicts with.
\* A NULL in either column conflicts with nothing.
PostConflicts(rows, thread_id, post_number) ==
    {r \in rows : /\ thread_id.k # "none"
                  /\ post_number.k # "none"
                  /\ r.thread_id = thread_id
                  /\ r.post_number = post_number}

\* Mutant of ExecInsertOrReplace: a conflicting row is kept and the new one dropped.
ExecInsertOrReplace_KeepsOld(p, t, cols, conflicts) ==
    IF conflicts # {} THEN p ELSE ExecInsert(p, t, cols)

\* INSERT OR REPLACE: the conflicting rows are deleted, then the row is
\* inserted under a new AUTOINCREMENT key.
ExecInsertOrReplace(p, t, cols, conflicts) ==
    ExecInsert([p EXCEPT !.db = [@ EXCEPT ![t] = @ \ conflicts]], t, cols)

\* The posts table declares no FOREIGN KEY: a post row is accepted whatever
\* its thread_id and user_id are.
PostForeignKeysHold_Enforced(db, thread_id, user_id) ==
    /\ thread_id.k = "none" \/ \E r \in db.threads : IntV(r.id) = thread_id
    /\ user_id.k = "none" \/ \E r \in db.users : IntV(r.id) = user_id

PostForeignKeysHold(db, thread_id, user_id) == TRUE

SavePost(p, item) ==
    LET raw_thread_id == Get(item, "thread_id")
        thread_id == IF IsStr(raw_thread_id) /\ IsDigit(raw_thread_id.s)
                     THEN IntV(ParseInt(raw_thread_id.s))
                     ELSE raw_thread_id
        raw_user_id == Get(item, "user_id")
        username == Get(item, "username")
        user_id == IF ~Truthy(raw_user_id) /\ Truthy(username)
                   THEN DictGet(p.user_name_to_id, username.s)
                   ELSE raw_user_id
        content_urls == Get(item, "content_urls")
        content_urls_str == IF content_urls.k = "list"
                            THEN StrV(JsonDumps(content_urls.l))
                            ELSE NoneV
        post_number == Affinity(Get(item, "post_number"))
        conflicts == PostConflicts(p.db.posts, Affinity(thread_id), post_number)
        p1 == ExecInsertOrReplace(p, "posts",
                  [thread_id |-> Affinity(thread_id),
                   user_id |-> Affinity(user_id),
                   post_number |-> post_number,
                   content |-> Get(item, "content"),
                   content_urls |-> content_urls_str,
                   post_date |-> Get(item, "post_date"),
                   url |-> Get(item, "url"),
                   username |-> username],
                  conflicts)
    IN  IF PostForeignKeysHold(p.db, Affinity(thread_id), Affinity(user_id))
        THEN Done(p1)
        ELSE Raise(p)

\* ----------------------------------------------------------- process_item

\* The item is returned without a write and without a commit.
Pass(p) == [p |-> p, raised |-> FALSE, commit |-> FALSE]

process_item_NoGuard(p, item) ==
    CASE item.kind = "ForumItem" -> SaveForum(p, item)
      [] item.kind = "ForumSectionItem" -> SaveSection(p, item)
      [] item.kind = "ForumThreadItem" -> SaveThread(p, item)
      [] item.kind = "ForumUserItem" -> SaveUser(p, item)
      [] item.kind = "ForumPostItem" -> SavePost(p, item)
      [] OTHER -> Pass(p)

process_item(p, item) ==
    IF p.connection # "open"
    THEN Raise(p)   \* RuntimeError("SQLite connection is not initialized")
    ELSE CASE item.kind = "ForumItem" -> SaveForum(p, item)
           [] item.kind = "ForumSectionItem" -> SaveSection(p, item)
           [] item.kind = "ForumThreadItem" -> SaveThread(p, item)
           [] item.kind = "ForumUserItem" -> SaveUser(p, item)
           [] item.kind = "ForumPostItem" -> SavePost(p, item)
           [] OTHER -> Pass(p)

\* ---------------------------------------------------------------- lifecycle

\* __init__: no connection, empty caches.
NewPipeline ==
    [connection |-> "new",
     db |-> EmptyDb,
     last_insert_rowid |-> 0,
     forum_url_to_id |-> EmptyDict,
     forum_name_to_id |-> EmptyDict,
     section_url_to_id |-> EmptyDict,
     thread_url_to_id |-> EmptyDict,
     user_name_to_id |-> EmptyDict]

\* open_spider: sqlite3.connect on the file, then CREATE TABLE IF NOT EXISTS.
\* A new connection has last_insert_rowid 0 and sees what is committed.
open_spider(p, file) ==
    [p EXCEPT !.connection = "open", !.db = file, !.last_insert_rowid = 0]

\* close_spider: commit and close; self.connection = None.
close_spider(p) ==
    [p EXCEPT !.connection = "closed", !.last_insert_rowid = 0]

\* ------------------------------------------------------------ the entities

SpiderName == "wiara"
ForumUrl == "https://forum.wiara.pl"

\* ForumItem: the source name, and the URL that identifies the forum
ForumItems ==
    {[kind |-> "ForumItem", spider_name |-> StrV(SpiderName), title |-> StrV("wiara.pl"),
      url |-> StrV(ForumUrl)]}

S1 == "https://forum.wiara.pl/viewforum.php?f=1"
S2 == "https://forum.wiara.pl/viewforum.php?f=2"
T1 == "https://forum.wiara.pl/viewtopic.php?t=1"
T2 == "https://forum.wiara.pl/viewtopic.php?t=2"

SectionItem(url, forum_id) ==
    [kind |-> "ForumSectionItem", title |-> StrV("Sekcja"), url |-> StrV(url),
     forum_id |-> forum_id]

\* Sections whose forum reference is the source name, a key no forum was
\* stored under, or the forum URL.
SectionItems ==
    {SectionItem(S1, StrV(SpiderName)), SectionItem(S1, StrV("radiokatolik")),
     SectionItem(S2, StrV(ForumUrl))}

\* The columns a thread row carries besides its keys, in two versions.
ThreadData(v) ==
    IF v = "a"
    THEN [title |-> StrV("Hello World"), author |-> StrV("Jan"), replies |-> IntV(0),
          views |-> IntV(5), last_post_date |-> StrV("2020-01-01"),
          last_post_author |-> StrV("Jan")]
    ELSE [title |-> StrV("Hello"), author |-> StrV("Ola"), replies |-> IntV(3),
          views |-> IntV(9), last_post_date |-> StrV("2021-02-02"),
          last_post_author |-> StrV("Ola")]

ThreadItem(url, v, ref) ==
    [kind |-> "ForumThreadItem", url |-> StrV(url)] @@ ThreadData(v) @@ ref

\* Threads whose section reference is absent, a section_url, a numeric
\* section_id, or a section URL in the section_id field; and a thread with
\* a section_url and a list where a text is expected.
ThreadItems ==
    {ThreadItem(T1, "a", [section_id |-> NoneV]),
     ThreadItem(T1, "a", [section_url |-> StrV(S1)]),
     ThreadItem(T1, "b", [section_id |-> StrV(S1)]),
     ThreadItem(T2, "a", [section_id |-> IntV(1)]),
     ThreadItem(T2, "b", [section_url |-> StrV(S2)]),
     [ThreadItem(T2, "a", [section_url |-> StrV(S2)]) EXCEPT !.author = ListV(<<"Jan">>)]}

UserData(v) ==
    IF v = "a"
    THEN [join_date |-> StrV("2010-05-01"), posts_count |-> IntV(10)]
    ELSE [join_date |-> StrV("2011-06-02"), posts_count |-> IntV(20),
          religion |-> StrV("katolik"), gender |-> StrV("M"),
          localization |-> StrV("Krakow")]

UserItem(username, v) ==
    [kind |-> "ForumUserItem", username |-> StrV(username)] @@ UserData(v)

UserItems == {UserItem("Jan", "a"), UserItem("Jan", "b"), UserItem("Ola", "a")}

PostData(v) ==
    IF v = "a"
    THEN [content |-> StrV("Dzien dobry"), content_urls |-> ListV(<<>>),
          post_date |-> StrV("2020-01-01"),
          url |-> StrV("https://forum.wiara.pl/viewtopic.php?p=1#p1")]
    ELSE [content |-> StrV("Szczesc Boze"), content_urls |-> ListV(<<"https://wiara.pl">>),
          post_date |-> StrV("2020-01-02"),
          url |-> StrV("https://forum.wiara.pl/viewtopic.php?p=1")]

PostItem(thread_id, post_number, user_id, username, v) ==
    [kind |-> "ForumPostItem", thread_id |-> thread_id, post_number |-> post_number,
     user_id |-> user_id, username |-> StrV(username)] @@ PostData(v)

\* Posts as the spiders send them: the thread id as an int or as the digits
\* of the URL's t parameter, the author by username (user_id None) or with a
\* user_id, and the post number missing.
PostItems ==
    {PostItem(IntV(1), IntV(1), NoneV, "Jan", "a"),
     PostItem(StrV("1"), IntV(1), NoneV, "Jan", "b"),
     PostItem(IntV(1), NoneV, IntV(2), "Ola", "a")}

\* An item of none of the five classes
OtherItems == {[kind |-> "dict"]}

\* ------------------------------------------------------------------ strings

Ch(s, i) == SubSeq(s, i, i)

\* str.find from position from (counted from 1); 0 when sub does not occur
Find(s, sub, from) ==
    LET hits == {i \in from..(Len(s) - Len(sub) + 1) : SubSeq(s, i, i + Len(sub) - 1) = sub}
    IN  IF hits = {} THEN 0 ELSE CHOOSE i \in hits : \A j \in hits : i <= j

\* `sub in s`, and the href*="sub" attribute selector
Contains(s, sub) == Find(s, sub, 1) # 0

\* s.split(sep, 1)[0]
Before(s, sep) ==
    LET i == Find(s, sep, 1) IN IF i = 0 THEN s ELSE SubSeq(s, 1, i - 1)

\* s.split(sep, 1)[1], "" when sep does not occur
After(s, sep) ==
    LET i == Find(s, sep, 1) IN IF i = 0 THEN "" ELSE SubSeq(s, i + Len(sep), Len(s))

RECURSIVE Split(_, _)
Split(s, sep) ==
    IF Find(s, sep, 1) = 0 THEN <<s>> ELSE <<Before(s, sep)>> \o Split(After(s, sep), sep)

RECURSIVE Strip(_)
Strip(s) ==
    IF Len(s) = 0 THEN s
    ELSE IF Ch(s, 1) = " " THEN Strip(SubSeq(s, 2, Len(s)))
    ELSE IF Ch(s, Len(s)) = " " THEN Strip(SubSeq(s, 1, Len(s) - 1))
    ELSE s

\* The digits s begins with: what (\d+) captures at the head of s
RECURSIVE LeadingDigits(_)
LeadingDigits(s) ==
    IF Len(s) > 0 /\ Ch(s, 1) \in Digits
    THEN Ch(s, 1) \o LeadingDigits(SubSeq(s, 2, Len(s)))
    ELSE ""

\* ------------------------------------------------------------- urllib.parse

\* urlparse(url).query: the fragment is cut off first, then the query
UrlQuery(url) == After(Before(url, "#"), "?")

\* urlparse(url).path: what follows scheme://netloc, up to the query
UrlPath(url) ==
    LET plain == Before(Before(url, "#"), "?")
    IN  IF Contains(plain, "://")
        THEN LET rest == After(plain, "://")
                 i == Find(rest, "/", 1)
             IN  IF i = 0 THEN "" ELSE SubSeq(rest, i, Len(rest))
        ELSE plain

\* scheme://netloc of an absolute URL
UrlOrigin(url) ==
    LET plain == Before(Before(url, "#"), "?")
    IN  SubSeq(plain, 1, Len(plain) - Len(UrlPath(url)))

\* The directory of a path: up to its last "/"
UrlDir(path) ==
    IF ~Contains(path, "/") THEN "/"
    ELSE SubSeq(path, 1, CHOOSE i \in 1..Len(path) :
                            /\ Ch(path, i) = "/"
                            /\ \A j \in (i + 1)..Len(path) : Ch(path, j) # "/")

UrlJoinParts(origin, path, h) ==
    IF Contains(h, "://") THEN h
    ELSE IF Ch(h, 1) = "/" THEN origin \o h
    ELSE IF Ch(h, 1) = "?" THEN origin \o path \o h
    ELSE IF Len(h) >= 2 /\ SubSeq(h, 1, 2) = "./"
         THEN origin \o UrlDir(path) \o SubSeq(h, 3, Len(h))
    ELSE origin \o UrlDir(path) \o h

\* urljoin(base, href) for the hrefs a board page carries: none or empty,
\* absolute, rooted (/x), query only (?x) and relative to the page (x, ./x)
UrlJoin(base, href) ==
    IF ~Truthy(href) THEN base ELSE UrlJoinParts(UrlOrigin(base), UrlPath(base), href.s)

\* The fields of a query that give key a value that is not blank
QsHits(fields, key) ==
    {i \in 1..Len(fields) :
        /\ Contains(fields[i], "=")
        /\ Before(fields[i], "=") = key
        /\ After(fields[i], "=") # ""}

QsFirst(fields, hits, default) ==
    IF hits = {} THEN default
    ELSE StrV(After(fields[CHOOSE i \in hits : \A j \in hits : i <= j], "="))

QsFields(fields, key, default) == QsFirst(fields, QsHits(fields, key), default)

\* parse_qs(query).get(key, [default])[0]: the first value given for key; a
\* field with no "=" or with a blank value is left out by parse_qs
QsGet(query, key, default) == QsFields(Split(query, "&"), key, default)

\* ---------------------------------------------------------------- the spider

\* The netloc of an absolute URL: what stands between :// and the path
UrlNetloc(url) == Before(After(Before(Before(url, "#"), "?"), "://"), "/")

\* urlparse raises ValueError("Invalid IPv6 URL") for a netloc with one of
\* "[" and "]" and not the other (a netloc with both is not among the URLs
\* modelled)
UrlParseRaises(url) == Contains(UrlNetloc(url), "[") # Contains(UrlNetloc(url), "]")

\* A call that ends in an exception
RaisedV == [k |-> "raise"]

\* WiaraSpider._get_thread_id_from_url: the t parameter, as the string it is;
\* None when urlparse raises (except Exception)
GetThreadIdFromUrl(thread_url) ==
    LET thread_param == QsGet(UrlQuery(thread_url), "t", NoneV)
    IN  IF UrlParseRaises(thread_url) THEN NoneV
        ELSE IF Truthy(thread_param) THEN thread_param ELSE NoneV

\* The digits s ends with: what (\d+)$ captures
RECURSIVE TrailingDigits(_)
TrailingDigits(s) ==
    IF Len(s) > 0 /\ Ch(s, Len(s)) \in Digits
    THEN TrailingDigits(SubSeq(s, 1, Len(s) - 1)) \o Ch(s, Len(s))
    ELSE ""

FirstNumber(t, p, path_digits) ==
    IF Truthy(t) /\ IsDigit(t.s) THEN IntV(ParseInt(t.s))
    ELSE IF Truthy(p) /\ IsDigit(p.s) THEN IntV(ParseInt(p.s))
    ELSE IF path_digits # "" THEN IntV(ParseInt(path_digits))
    ELSE NoneV

\* BaseForumSpider._get_thread_id_from_url: the t parameter, else the p
\* parameter, when numeric, as an int; else the digits the path ends with
BaseGetThreadIdFromUrl(url) ==
    IF url = "" THEN NoneV
    ELSE IF UrlParseRaises(url) THEN RaisedV   \* urlparse is outside any try
    ELSE FirstNumber(QsGet(UrlQuery(url), "t", NoneV), QsGet(UrlQuery(url), "p", NoneV),
                     TrailingDigits(UrlPath(url)))

\* re.search(r'p=(\d+)', post_link): the digits after the first "p=" that a
\* digit follows
PostNumberFromLink(post_link) ==
    LET hits == {i \in 1..(Len(post_link) - 2) :
                    SubSeq(post_link, i, i + 1) = "p=" /\ Ch(post_link, i + 2) \in Digits}
    IN  IF hits = {} THEN NoneV
        ELSE LET i == CHOOSE n \in hits : \A m \in hits : n <= m
             IN  IntV(ParseInt(LeadingDigits(SubSeq(post_link, i + 2, Len(post_link)))))

\* The digits of an int() literal without its sign
Unsigned(s) == IF Len(s) > 0 /\ Ch(s, 1) \in {"+", "-"} THEN SubSeq(s, 2, Len(s)) ELSE s

RECURSIVE DropUnderscores(_)
DropUnderscores(s) ==
    IF Len(s) = 0 THEN ""
    ELSE (IF Ch(s, 1) = "_" THEN "" ELSE Ch(s, 1)) \o DropUnderscores(SubSeq(s, 2, Len(s)))

\* What int() accepts once the text is stripped: an optional sign, then
\* digits, single underscores allowed between two digits
IsIntLiteral(s) ==
    /\ Len(Unsigned(s)) > 0
    /\ \A n \in 1..Len(Unsigned(s)) :
           \/ Ch(Unsigned(s), n) \in Digits
           \/ /\ Ch(Unsigned(s), n) = "_"
              /\ 1 < n /\ n < Len(Unsigned(s))
              /\ Ch(Unsigned(s), n - 1) \in Digits
              /\ Ch(Unsigned(s), n + 1) \in Digits

IntLiteral(s) ==
    IF Ch(s, 1) = "-" THEN 0 - ParseInt(DropUnderscores(Unsigned(s)))
    ELSE ParseInt(DropUnderscores(Unsigned(s)))

IntOrZero_NoDefault(text) ==
    IF Truthy(text) /\ IsIntLiteral(Strip(text.s)) THEN IntV(IntLiteral(Strip(text.s)))
    ELSE NoneV

\* int(text.strip()) under `except ValueError`: 0 for what is not a number
IntOrZero(text) ==
    IF Truthy(text) /\ IsIntLiteral(Strip(text.s)) THEN IntV(IntLiteral(Strip(text.s)))
    ELSE IntV(0)

\* text.strip() of an optional text: None stays None, and so does ""
StripOrNone(text) == IF Truthy(text) THEN StrV(Strip(text.s)) ELSE NoneV

\* utils.parse_polish_date: the canonical timestamp of a date the board
\* prints, None for any other string
ParsePolishDate(raw) ==
    CASE raw = "01 sty 2020, 10:00" -> StrV("2020-01-01 10:00:00")
      [] raw = "02 lut 2021, 12:30" -> StrV("2021-02-02 12:30:00")
      [] OTHER -> NoneV

\* parse_polish_date(raw) with the raw string as the fallback
DateOrRaw(text) ==
    IF ~Truthy(text) THEN NoneV
    ELSE LET raw == Strip(text.s)
             parsed == ParsePolishDate(raw)
         IN  IF parsed.k = "none" THEN StrV(raw) ELSE parsed

\* utils.strip_quotes_from_html: the body without its quoted blocks
StripQuotesFromHtml(body) == [body EXCEPT !.quote = "", !.quote_urls = <<>>]

\* utils.extract_urls_from_html: the body's links, absolute, in document order
ExtractUrlsFromHtml(body, base_url) ==
    [i \in 1..Len(body.quote_urls \o body.urls) |->
        UrlJoin(base_url, StrV((body.quote_urls \o body.urls)[i]))]

\* utils.clean_post_content: the body's plain text
CleanPostContent(body) ==
    Strip(IF body.quote = "" THEN body.text ELSE body.quote \o " " \o body.text)

ItemOut(item) == [o |-> "item", item |-> item]
RequestOut(url, callback, meta) ==
    [o |-> "request", req |-> [url |-> url, callback |-> callback, meta |-> meta]]

ForumLinkOutputs(title, full_url) ==
    <<ItemOut([kind |-> "ForumSectionItem", title |-> StrV(title),
               url |-> StrV(full_url), forum_id |-> StrV(SpiderName)]),
      RequestOut(full_url, "parse_section_threads",
                 [section_url |-> StrV(full_url), section_title |-> StrV(title)])>>

\* parse: the forum, then for each a.forumlink its section and the request
\* for the section's first page. A link with no text node makes .strip()
\* raise AttributeError, which ends the generator where it stands.
RECURSIVE ParseForumLinks(_, _)
ParseForumLinks(url, links) ==
    IF links = <<>> THEN <<>>
    ELSE IF Head(links).text.k # "str" THEN <<>>
    ELSE ForumLinkOutputs(Strip(Head(links).text.s), UrlJoin(url, Head(links).href))
         \o ParseForumLinks(url, Tail(links))

parse(response) ==
    <<ItemOut([kind |-> "ForumItem", spider_name |-> StrV(SpiderName),
               title |-> StrV("wiara.pl")])>>
    \o ParseForumLinks(response.url, response.page.forumlinks)

\* _extract_thread_data: None (here a record of kind "none") for a row
\* without a title link, title text or href
ExtractThreadData(thread, url) ==
    IF ~Truthy(thread.title) \/ ~Truthy(thread.href) THEN [kind |-> "none"]
    ELSE [kind |-> "ForumThreadItem",
          title |-> StrV(Strip(thread.title.s)),
          url |-> StrV(UrlJoin(url, thread.href)),
          author |-> StripOrNone(thread.author),
          replies |-> IntOrZero(thread.replies),
          views |-> IntOrZero(thread.views),
          last_post_date |-> DateOrRaw(thread.last_post_date),
          last_post_author |-> StripOrNone(thread.last_post_author)]

ThreadOutputs(thread_data) ==
    <<ItemOut(thread_data),
      RequestOut(thread_data.url.s, "parse_thread_posts",
                 [thread_url |-> thread_data.url,
                  thread_title |-> thread_data.title,
                  thread_id |-> GetThreadIdFromUrl(thread_data.url.s)])>>

\* The thread rows of parse_section_threads: tr:not(:first-child) with a
\* .row1/.row2 cell, each URL once per page
RECURSIVE SectionThreads(_, _, _)
RECURSIVE SectionThread(_, _, _, _, _)
SectionThread_ForgetsUrls(url, rest, processed_urls, thread, thread_data) ==
    IF thread.first_child \/ ~thread.row_class \/ thread_data.kind = "none"
    THEN SectionThreads(url, rest, processed_urls)
    ELSE ThreadOutputs(thread_data) \o SectionThreads(url, rest, processed_urls)

SectionThread(url, rest, processed_urls, thread, thread_data) ==
    IF thread.first_child \/ ~thread.row_class
       \/ thread_data.kind = "none" \/ thread_data.url.s \in processed_urls
    THEN SectionThreads(url, rest, processed_urls)
    ELSE ThreadOutputs(thread_data)
         \o SectionThreads(url, rest, processed_urls \cup {thread_data.url.s})

SectionThreads(url, rows, processed_urls) ==
    IF rows = <<>> THEN <<>>
    ELSE SectionThread(url, Tail(rows), processed_urls, Head(rows),
                       ExtractThreadData(Head(rows), url))

Unique_KeepsAll(urls, seen) == urls

\* The order-preserving removal of duplicates
RECURSIVE Unique(_, _)
Unique(urls, seen) ==
    IF urls = <<>> THEN <<>>
    ELSE IF Head(urls) \in seen THEN Unique(Tail(urls), seen)
    ELSE <<Head(urls)>> \o Unique(Tail(urls), seen \cup {Head(urls)})

\* The start parameter of a URL, "0" when it has none
StartOf(url) == QsGet(UrlQuery(url), "start", StrV("0"))

\* The anchors with view_type and start= in the href, or when there is none,
\* the anchors with start=
PickHrefs(both, anchors) ==
    IF both # <<>> THEN both ELSE SelectSeq(anchors, LAMBDA a : Contains(a.href, "start="))

PaginationHrefs(anchors, view_type) ==
    PickHrefs(SelectSeq(anchors, LAMBDA a : Contains(a.href, view_type)
                                            /\ Contains(a.href, "start=")),
              anchors)

JoinAll(url, hrefs) == [i \in 1..Len(hrefs) |-> UrlJoin(url, StrV(hrefs[i].href))]

OtherPages(urls, view_type, current_start) ==
    SelectSeq(urls, LAMBDA u : Contains(UrlPath(u), view_type) /\ StartOf(u) # current_start)

\* _extract_forum_pagination_links
ExtractForumPaginationLinks(url, anchors, view_type) ==
    Unique(OtherPages(JoinAll(url, PaginationHrefs(anchors, view_type)), view_type,
                      StartOf(url)),
           {})

SectionNextPages(response, next_page_links) ==
    [i \in 1..Len(next_page_links) |->
        RequestOut(next_page_links[i], "parse_section_threads",
                   [section_url |-> Get(response.meta, "section_url"),
                    section_title |-> Get(response.meta, "section_title"),
                    page_scope |-> StrV("section"),
                    pages_total |-> IntV(1 + Len(next_page_links)),
                    page_index |-> IntV(i + 1)])]

parse_section_threads(response) ==
    SectionThreads(response.url, response.page.threads, {})
    \o SectionNextPages(response,
                        ExtractForumPaginationLinks(response.url, response.page.anchors,
                                                    "viewforum.php"))

\* _extract_user_data: the username, and from .postdetails the join date and
\* the post count (the digits that follow the label)
ExtractUserData(post) ==
    IF ~post.postauthor \/ ~Truthy(post.author) THEN [kind |-> "none"]
    ELSE [kind |-> "ForumUserItem",
          username |-> StrV(Strip(post.author.s)),
          join_date |-> DateOrRaw(post.joined),
          posts_count |-> IF Truthy(post.posts) /\ LeadingDigits(post.posts.s) # ""
                          THEN IntV(ParseInt(LeadingDigits(post.posts.s)))
                          ELSE NoneV]

PostItemOf(post, url, thread_id, body, has_link) ==
    [kind |-> "ForumPostItem",
     thread_id |-> thread_id,
     user_id |-> NoneV,
     username |-> StrV(Strip(post.author.s)),
     post_number |-> IF has_link THEN PostNumberFromLink(post.post_link.s) ELSE NoneV,
     content |-> StrV(CleanPostContent(body)),
     content_urls |-> ListV(ExtractUrlsFromHtml(body, url)),
     post_date |-> DateOrRaw(post.post_date),
     url |-> IF has_link THEN StrV(UrlJoin(url, post.post_link)) ELSE NoneV]

\* _extract_post_data
ExtractPostData(post, url, thread_id) ==
    IF ~post.postauthor \/ ~Truthy(post.author) THEN [kind |-> "none"]
    ELSE PostItemOf(post, url, thread_id, StripQuotesFromHtml(post.body),
                    Truthy(post.post_link))

PostOutputs(user_data, post_data) ==
    (IF user_data.kind = "none" THEN <<>> ELSE <<ItemOut(user_data)>>)
    \o (IF post_data.kind = "none" THEN <<>> ELSE <<ItemOut(post_data)>>)

ThreadNextPages_ReadsIdFromUrl(response, thread_id, next_page_links) ==
    [i \in 1..Len(next_page_links) |->
        RequestOut(next_page_links[i], "parse_thread_posts",
                   [thread_url |-> Get(response.meta, "thread_url"),
                    thread_title |-> Get(response.meta, "thread_title"),
                    thread_id |-> GetThreadIdFromUrl(next_page_links[i]),
                    page_scope |-> StrV("thread"),
                    pages_total |-> IntV(1 + Len(next_page_links)),
                    page_index |-> IntV(i + 1)])]

RECURSIVE ThreadPosts_StopsAtOtherRow(_, _, _)
ThreadPosts_StopsAtOtherRow(url, rows, thread_id) ==
    IF rows = <<>> \/ ~Head(rows).postauthor \/ ~Head(rows).postbody THEN <<>>
    ELSE PostOutputs(ExtractUserData(Head(rows)),
                     ExtractPostData(Head(rows), url, thread_id))
         \o ThreadPosts_StopsAtOtherRow(url, Tail(rows), thread_id)

\* The post rows of parse_thread_posts: tr.row1, tr.row2 with an author
\* marker and a body marker
RECURSIVE ThreadPosts(_, _, _)
ThreadPosts(url, rows, thread_id) ==
    IF rows = <<>> THEN <<>>
    ELSE (IF ~Head(rows).postauthor \/ ~Head(rows).postbody THEN <<>>
          ELSE PostOutputs(ExtractUserData(Head(rows)),
                           ExtractPostData(Head(rows), url, thread_id)))
         \o ThreadPosts(url, Tail(rows), thread_id)

\* _extract_thread_pagination_links: td.gensmall a[href*="viewtopic.php"]
ExtractThreadPaginationLinks(url, anchors) ==
    JoinAll(url, SelectSeq(anchors, LAMBDA a : /\ a.gensmall
                                               /\ Contains(a.href, "viewtopic.php")
                                               /\ a.href # ""))

ThreadNextPages(response, thread_id, next_page_links) ==
    [i \in 1..Len(next_page_links) |->
        RequestOut(next_page_links[i], "parse_thread_posts",
                   [thread_url |-> Get(response.meta, "thread_url"),
                    thread_title |-> Get(response.meta, "thread_title"),
                    thread_id |-> thread_id,
                    page_scope |-> StrV("thread"),
                    pages_total |-> IntV(1 + Len(next_page_links)),
                    page_index |-> IntV(i + 1)])]

parse_thread_posts(response) ==
    IF ~Truthy(Get(response.meta, "thread_id")) THEN <<>>
    ELSE ThreadPosts(response.url, response.page.posts, Get(response.meta, "thread_id"))
         \o ThreadNextPages(response, Get(response.meta, "thread_id"),
                            ExtractThreadPaginationLinks(response.url, response.page.anchors))

ForumTitle == "wiara.pl"

\* _build_forum_item: forum_title, or the spider's name when it is blank
BuildForumItem ==
    [kind |-> "ForumItem", spider_name |-> StrV(SpiderName),
     title |-> StrV(IF ForumTitle # "" THEN ForumTitle ELSE SpiderName)]

BuildMinimalSectionItem(section_url) ==
    [kind |-> "ForumSectionItem", title |-> StrV("manual"), url |-> section_url,
     forum_id |-> StrV(SpiderName)]

\* _build_minimal_thread_item: section_url is set only when there is one
BuildMinimalThreadItem(thread_url, section_url) ==
    IF Truthy(section_url)
    THEN [kind |-> "ForumThreadItem", title |-> StrV("manual"), url |-> StrV(thread_url),
          section_url |-> section_url]
    ELSE [kind |-> "ForumThreadItem", title |-> StrV("manual"), url |-> StrV(thread_url)]

\* viewforum.php?f=<f> on the thread's scheme and host, None without f
OnlyThreadSectionUrl(thread_url, f_param) ==
    IF Truthy(f_param)
    THEN StrV(UrlJoin(UrlOrigin(thread_url) \o "/", StrV("viewforum.php?f=" \o f_param.s)))
    ELSE NoneV

OnlyThreadOutputs(thread_url, section_url) ==
    <<ItemOut(BuildForumItem)>>
    \o (IF Truthy(section_url) THEN <<ItemOut(BuildMinimalSectionItem(section_url))>>
        ELSE <<>>)
    \o <<ItemOut(BuildMinimalThreadItem(thread_url, section_url)),
          RequestOut(thread_url, "parse_thread_posts",
                     [thread_url |-> StrV(thread_url), thread_title |-> StrV("manual"),
                      thread_id |-> GetThreadIdFromUrl(thread_url)])>>

\* _start_requests_only_thread: the minimal Forum, Section and Thread, then
\* the request for the thread's page
StartRequestsOnlyThread(only_thread_url) ==
    IF ~Truthy(only_thread_url) THEN <<>>
    ELSE OnlyThreadOutputs(only_thread_url.s,
             OnlyThreadSectionUrl(only_thread_url.s,
                                  QsGet(UrlQuery(only_thread_url.s), "f", NoneV)))

start_requests_IgnoresOnlyThread(only_thread_url) ==
    <<RequestOut(ForumUrl, "parse", <<>>)>>

\* BaseForumSpider.start_requests: the thread alone when only_thread_url is
\* set, else a request for each of start_urls, handled by parse
start_requests(only_thread_url) ==
    IF Truthy(only_thread_url) THEN StartRequestsOnlyThread(only_thread_url)
    ELSE <<RequestOut(ForumUrl, "parse", <<>>)>>

\* ----------------------------------------------------------------- the pages

\* A fetched page, as what the spider's selectors find in it: the
\* a.forumlink anchors, the tr rows of a thread listing, the tr.row1/tr.row2
\* rows of a thread, and the anchors that carry an href.
Page(forumlinks, threads, posts, anchors) ==
    [forumlinks |-> forumlinks, threads |-> threads, posts |-> posts, anchors |-> anchors]

ForumLink(text, href) == [text |-> text, href |-> href]

HeaderRow ==
    [first_child |-> TRUE, row_class |-> FALSE, title |-> NoneV, href |-> NoneV,
     author |-> NoneV, replies |-> NoneV, views |-> NoneV, last_post_date |-> NoneV,
     last_post_author |-> NoneV]

ThreadRow(title, href) ==
    [first_child |-> FALSE, row_class |-> TRUE, title |-> StrV(title), href |-> StrV(href),
     author |-> StrV("Jan"), replies |-> StrV(" 3 "), views |-> StrV("-"),
     last_post_date |-> StrV("01 sty 2020, 10:00"), last_post_author |-> StrV("Ola")]

PostBody(text) == [text |-> text, quote |-> "cytat", urls |-> <<"/regulamin">>,
                   quote_urls |-> <<"https://wiara.pl">>]

PostRow(author, post_link, text) ==
    [postauthor |-> TRUE, postbody |-> TRUE, author |-> StrV(author), post_link |-> post_link,
     joined |-> StrV("-"), posts |-> StrV("120"), body |-> PostBody(text),
     post_date |-> StrV("02 lut 2021, 12:30")]

\* A tr.row1 row that holds no post
DecorativeRow ==
    [PostRow("", NoneV, "") EXCEPT !.postauthor = FALSE, !.postbody = FALSE]

Anchor(href, gensmall) == [href |-> href, gensmall |-> gensmall]

S1Page2 == "https://forum.wiara.pl/viewforum.php?f=1&start=50"
T1Page2 == "https://forum.wiara.pl/viewtopic.php?t=1&start=15"

\* The root page: one section link, two of them, or a link whose text sits
\* in a child element (no text node of its own) ahead of a plain one
RootPages ==
    {Page(<<ForumLink(StrV("Sekcja"), StrV("viewforum.php?f=1"))>>, <<>>, <<>>, <<>>),
     Page(<<ForumLink(NoneV, StrV("viewforum.php?f=2")),
            ForumLink(StrV("Sekcja"), StrV("viewforum.php?f=1"))>>, <<>>, <<>>, <<>>),
     Page(<<ForumLink(StrV(" Sekcja "), StrV("./viewforum.php?f=1")),
            ForumLink(StrV("Inna"), StrV("viewforum.php?f=2"))>>, <<>>, <<>>, <<>>)}

\* The first page of section 1: one thread, or the thread twice and a
\* second page
SectionPages ==
    {Page(<<>>, <<HeaderRow, ThreadRow("Hello World", "viewtopic.php?t=1")>>, <<>>, <<>>),
     Page(<<>>, <<HeaderRow, ThreadRow("Hello World", "viewtopic.php?t=1"),
                  ThreadRow("Hello", "./viewtopic.php?t=1")>>, <<>>,
          <<Anchor("viewforum.php?f=1&start=50", FALSE),
            Anchor("./viewforum.php?f=1&start=50", FALSE)>>)}

\* The second page of section 1 links to itself only
SectionPage2 ==
    Page(<<>>, <<HeaderRow, ThreadRow(" Hello World", "viewtopic.php?t=1")>>, <<>>,
         <<Anchor("viewforum.php?f=1&start=50", FALSE)>>)

\* The first page of thread 1: a post and a decorative row, or a post, a
\* post whose subject carries no link, and a second page
ThreadPages ==
    {Page(<<>>, <<>>, <<PostRow("Jan", StrV("viewtopic.php?p=11#p11"), "Dzien dobry"),
                        DecorativeRow>>, <<>>),
     Page(<<>>, <<>>, <<PostRow("Jan", StrV("viewtopic.php?p=11#p11"), "Dzien dobry"),
                        PostRow("Ola", NoneV, "Szczesc Boze")>>,
          <<Anchor("viewtopic.php?t=1&start=15", TRUE)>>),
     Page(<<>>, <<>>, <<PostRow(" ", StrV("viewtopic.php?p=14#p14"), "Amen")>>, <<>>)}

ThreadPage2 ==
    Page(<<>>, <<>>, <<PostRow(" Jan ", StrV("./viewtopic.php?p=12#p12"), "Amen")>>, <<>>)

\* Thread 1 under the URL that names its section too
T1InSection == "https://forum.wiara.pl/viewtopic.php?f=1&t=1"

\* A site: the page behind each URL that answers. Section 2 does not answer.
\* Thread 1 addressed by one of its posts, without and with its section
P11 == "https://forum.wiara.pl/viewtopic.php?p=11"
P11InSection == "https://forum.wiara.pl/viewtopic.php?f=1&p=11"

SiteUrls == {ForumUrl, S1, S1Page2, T1, T1InSection, T1Page2, P11, P11InSection}

Site(root, section, thread) ==
    [u \in SiteUrls |->
        CASE u = ForumUrl -> root
          [] u = S1 -> section
          [] u = S1Page2 -> SectionPage2
          [] u \in {T1, T1InSection, P11, P11InSection} -> thread
          [] OTHER -> ThreadPage2]

\* The only_thread_url argument of the spider: not given, or thread 1
OnlyThreadUrls == {NoneV, StrV(T1), StrV(T1InSection), StrV(P11), StrV(P11InSection)}

Sites == {Site(r, s, t) : r \in RootPages, s \in SectionPages, t \in ThreadPages}

NoSite == [u \in {} |-> 0]

\* crawl: the pages of the site, the spider's only_thread_url argument, the
\* driver's pending requests, the outputs
\* of the last callback that are not handed on yet, the number of requests
\* taken in this run, and the row counts of the store at the end of each run.
NoCrawl == [site |-> NoSite, only_thread_url |-> NoneV, pending |-> <<>>,
            outbox |-> <<>>, fetched |-> 0, counts |-> <<>>]

\* probe when no helper is called
NoProbe == [fn |-> "none"]

\* ---------------------------------------------------------------- actions

NoRows == [t \in Tables |-> {}]

\* last: the call, its item, whether it raised, and the rows it added to and
\* removed from the connection's view of each table.
NoCall == [op |-> "init", item |-> [kind |-> "none"], raised |-> FALSE,
           inserted |-> NoRows, deleted |-> NoRows]

Init ==
    /\ pipeline = NewPipeline
    /\ disk = EmptyDb
    /\ last = NoCall
    /\ nops = 0
    /\ runs = 0
    /\ crawl = NoCrawl
    /\ probe = NoProbe

\* from_crawler: the next crawl process builds its own pipeline object.
FromCrawler ==
    /\ pipeline.connection = "closed"
    /\ runs < MaxRuns
    /\ pipeline' = NewPipeline
    /\ last' = [NoCall EXCEPT !.op = "from_crawler"]
    /\ UNCHANGED <<disk, nops, runs, crawl, probe>>

OpenSpider ==
    /\ pipeline.connection = "new"
    /\ runs < MaxRuns
    /\ pipeline' = open_spider(pipeline, disk)
    /\ runs' = runs + 1
    /\ last' = [NoCall EXCEPT !.op = "open_spider"]
    /\ UNCHANGED <<disk, nops, crawl, probe>>

CloseSpider ==
    /\ pipeline.connection = "open"
    /\ pipeline' = close_spider(pipeline)
    /\ disk' = pipeline.db
    /\ last' = [NoCall EXCEPT !.op = "close_spider"]
    /\ UNCHANGED <<nops, runs, crawl, probe>>

\* The process dies between two calls, or inside one before its commit: the
\* connection is gone without a commit and the file keeps what was committed.
\* last keeps the call that came last and gets the rows that are lost.
Crash ==
    /\ pipeline.connection = "open"
    /\ pipeline' = [close_spider(pipeline) EXCEPT !.db = disk]
    /\ last' = [last EXCEPT !.op = "crash",
                            !.deleted = [t \in Tables |-> pipeline.db[t] \ disk[t]]]
    /\ UNCHANGED <<disk, nops, runs, crawl, probe>>

\* One call of process_item, with what it leaves behind.
ProcessItem(item) ==
    /\ nops < MaxOps
    /\ LET r == process_item(pipeline, item)
       IN  /\ pipeline' = r.p
           /\ disk' = IF r.commit THEN r.p.db ELSE disk
           /\ last' = [op |-> "process_item", item |-> item, raised |-> r.raised,
                       inserted |-> [t \in Tables |-> r.p.db[t] \ pipeline.db[t]],
                       deleted |-> [t \in Tables |-> pipeline.db[t] \ r.p.db[t]]]
    /\ nops' = nops + 1
    /\ UNCHANGED <<runs, crawl, probe>>

UpsertForum == \E item \in ForumItems : ProcessItem(item)
UpsertSection == \E item \in SectionItems : ProcessItem(item)
UpsertThread == \E item \in ThreadItems : ProcessItem(item)
UpsertUser == \E item \in UserItems : ProcessItem(item)
UpsertPost == \E item \in PostItems : ProcessItem(item)
PassOther == \E item \in OtherItems : ProcessItem(item)

Next ==
    \/ FromCrawler
    \/ OpenSpider
    \/ CloseSpider
    \/ Crash
    \/ UpsertForum
    \/ UpsertSection
    \/ UpsertThread
    \/ UpsertUser
    \/ UpsertPost
    \/ PassOther

Spec == Init /\ [][Next]_vars

\* ------------------------------------------------------------------ the crawl

Callback(request, response) ==
    CASE request.callback = "parse" -> parse(response)
      [] request.callback = "parse_section_threads" -> parse_section_threads(response)
      [] OTHER -> parse_thread_posts(response)

RowCounts(db) == [t \in Tables |-> Cardinality(db[t])]

InitCrawl ==
    /\ pipeline = NewPipeline
    /\ disk = EmptyDb
    /\ last = NoCall
    /\ nops = 0
    /\ runs = 0
    /\ crawl \in {[NoCrawl EXCEPT !.site = s, !.only_thread_url = u] :
                     s \in Sites, u \in OnlyThreadUrls}
    /\ probe = NoProbe

\* One crawl process starts: from_crawler, open_spider, start_requests.
EngineStart ==
    /\ pipeline.connection \in {"new", "closed"}
    /\ runs < MaxRuns
    /\ pipeline' = open_spider(NewPipeline, disk)
    /\ crawl' = [crawl EXCEPT !.outbox = start_requests(crawl.only_thread_url),
                              !.fetched = 0]
    /\ runs' = runs + 1
    /\ last' = [NoCall EXCEPT !.op = "open_spider"]
    /\ UNCHANGED <<disk, nops, probe>>

\* The driver takes one pending request, fetches its page, and runs the
\* request's callback on the response; a URL that does not answer gives no
\* response to parse. The callback's outputs are handed on before the next
\* response is parsed.
Fetch(i) ==
    /\ pipeline.connection = "open"
    /\ crawl.outbox = <<>>
    /\ crawl.fetched < MaxFetches
    /\ LET request == crawl.pending[i]
           rest == [j \in 1..(Len(crawl.pending) - 1) |->
                       IF j < i THEN crawl.pending[j] ELSE crawl.pending[j + 1]]
       IN  crawl' = [crawl EXCEPT
                       !.pending = rest,
                       !.fetched = @ + 1,
                       !.outbox = IF request.url \in DOMAIN crawl.site
                                  THEN Callback(request, [url |-> request.url,
                                                          page |-> crawl.site[request.url],
                                                          meta |-> request.meta])
                                  ELSE <<>>]
    /\ UNCHANGED <<pipeline, disk, last, nops, runs, probe>>

FetchPage == \E i \in 1..Len(crawl.pending) : Fetch(i)

\* The next output is an item: the driver calls process_item with it. An
\* exception drops the item and the crawl goes on.
DeliverItem ==
    /\ crawl.outbox # <<>>
    /\ Head(crawl.outbox).o = "item"
    /\ LET r == process_item(pipeline, Head(crawl.outbox).item)
       IN  /\ pipeline' = r.p
           /\ disk' = IF r.commit THEN r.p.db ELSE disk
           /\ last' = [op |-> "process_item", item |-> Head(crawl.outbox).item,
                       raised |-> r.raised,
                       inserted |-> [t \in Tables |-> r.p.db[t] \ pipeline.db[t]],
                       deleted |-> [t \in Tables |-> pipeline.db[t] \ r.p.db[t]]]
    /\ crawl' = [crawl EXCEPT !.outbox = Tail(@)]
    /\ UNCHANGED <<nops, runs, probe>>

\* The next output is a request: it joins the pending requests.
DeliverRequest ==
    /\ crawl.outbox # <<>>
    /\ Head(crawl.outbox).o = "request"
    /\ crawl' = [crawl EXCEPT !.outbox = Tail(@),
                              !.pending = Append(@, Head(crawl.outbox).req)]
    /\ UNCHANGED <<pipeline, disk, last, nops, runs, probe>>

\* No request is pending: the driver closes the spider, close_spider commits.
EngineStop ==
    /\ pipeline.connection = "open"
    /\ crawl.pending = <<>>
    /\ crawl.outbox = <<>>
    /\ pipeline' = close_spider(pipeline)
    /\ disk' = pipeline.db
    /\ crawl' = [crawl EXCEPT !.counts = Append(@, RowCounts(pipeline.db))]
    /\ last' = [NoCall EXCEPT !.op = "close_spider"]
    /\ UNCHANGED <<nops, runs, probe>>

NextCrawl == EngineStart \/ FetchPage \/ DeliverItem \/ DeliverRequest \/ EngineStop

SpecCrawl == InitCrawl /\ [][NextCrawl]_vars

\* ------------------------------------------------- the stream of requests

\* The first page of section 1 under the URL that page 2 links back to
S1Start0 == "https://forum.wiara.pl/viewforum.php?f=1&start=0"

\* The second page of section 1 with the page bar of the board: a link to
\* each page, the first one and itself
SectionPage2Bar ==
    Page(<<>>, <<HeaderRow, ThreadRow(" Hello World", "viewtopic.php?t=1")>>, <<>>,
         <<Anchor("viewforum.php?f=1&start=0", FALSE),
           Anchor("viewforum.php?f=1&start=50", FALSE)>>)

\* The first page of thread 1 under the URL that page 2 links back to
T1Start0 == "https://forum.wiara.pl/viewtopic.php?t=1&start=0"

\* The second page of thread 1 with its page bar: a link to the first page
ThreadPage2Bar ==
    Page(<<>>, <<>>, <<PostRow(" Jan ", StrV("./viewtopic.php?p=12#p12"), "Amen")>>,
         <<Anchor("viewtopic.php?t=1&start=0", TRUE)>>)

\* A site whose second pages carry their page bars
BarSite(site, section2, thread2) ==
    [u \in SiteUrls \cup {S1Start0, T1Start0} |->
        CASE u = S1Start0 -> site[S1]
          [] u = T1Start0 -> site[T1]
          [] u = S1Page2 -> section2
          [] u = T1Page2 -> thread2
          [] OTHER -> site[u]]

BarSites ==
    {BarSite(s, SectionPage2Bar, ThreadPage2) : s \in Sites}
    \cup {BarSite(s, SectionPage2, ThreadPage2Bar) : s \in Sites}

\* The requests among the outputs of a callback, in order
Requests(outputs) ==
    LET reqs == SelectSeq(outputs, LAMBDA o : o.o = "request")
    IN  [i \in 1..Len(reqs) |-> reqs[i].req]

Respond(site, request) ==
    IF request.url \in DOMAIN site
    THEN Callback(request, [url |-> request.url, page |-> site[request.url],
                            meta |-> request.meta])
    ELSE <<>>

InitDriver ==
    /\ pipeline = NewPipeline
    /\ disk = EmptyDb
    /\ last = NoCall
    /\ nops = 0
    /\ runs = 0
    /\ crawl \in {[NoCrawl EXCEPT !.site = s, !.only_thread_url = u] :
                     s \in Sites \cup BarSites, u \in OnlyThreadUrls}
    /\ probe = NoProbe

\* The driver starts the spider and queues the requests of start_requests.
\* The entities go to the pipeline as in SpecCrawl; they have no part in
\* what is requested and are left out here.
DriverStart ==
    /\ runs = 0
    /\ runs' = 1
    /\ crawl' = [crawl EXCEPT !.pending = Requests(start_requests(crawl.only_thread_url))]
    /\ last' = [NoCall EXCEPT !.op = "open_spider"]
    /\ UNCHANGED <<pipeline, disk, nops, probe>>

\* The driver fetches the oldest pending request and queues every request
\* the callback returns; it drops none.
DriverFetch ==
    /\ runs = 1
    /\ crawl.pending # <<>>
    /\ crawl' = [crawl EXCEPT
                    !.pending = Tail(@) \o Requests(Respond(crawl.site, Head(crawl.pending)))]
    /\ UNCHANGED <<pipeline, disk, last, nops, runs, probe>>

\* Nothing is pending: the driver closes the spider.
DriverStop ==
    /\ runs = 1
    /\ crawl.pending = <<>>
    /\ last.op # "close_spider"
    /\ last' = [NoCall EXCEPT !.op = "close_spider"]
    /\ UNCHANGED <<pipeline, disk, nops, runs, crawl, probe>>

NextDriver == DriverStart \/ DriverFetch \/ DriverStop

\* The driver has a step to take: the enabling condition of NextDriver
DriverCanStep == runs = 0 \/ (runs = 1 /\ last.op # "close_spider")

\* WF_vars(NextDriver) with ENABLED <<NextDriver>>_vars written out as
\* DriverCanStep (every step of the driver changes vars): the driver does
\* not halt while it has a request to fetch or the spider to close.
DriverKeepsGoing == []<>(~DriverCanStep) \/ []<><<NextDriver>>_vars

SpecDriver ==
    InitDriver /\ [][NextDriver]_vars /\ WF_vars(DriverStop) /\ DriverKeepsGoing

\* -------------------------------------------------------- the spider's helpers

Host == "https://forum.wiara.pl"

\* a=1&b=2 of the fields that are there
RECURSIVE JoinFields(_)
JoinFields(fields) ==
    IF fields = <<>> THEN ""
    ELSE IF Head(fields) = "" THEN JoinFields(Tail(fields))
    ELSE IF JoinFields(Tail(fields)) = "" THEN Head(fields)
    ELSE Head(fields) \o "&" \o JoinFields(Tail(fields))

WithQuery(host, path, query, fragment) ==
    host \o path \o (IF query = "" THEN "" ELSE "?" \o query) \o fragment

Field(key, v) == IF v.k = "none" THEN "" ELSE key \o "=" \o v.s

\* URLs a thread id is asked of: a thread page, a path that ends in digits,
\* the bare host; with and without f, t (numeric, not numeric, blank) and p;
\* with and without a fragment; on the host and on a host with a stray
\* bracket; and the empty string
ThreadIdInputs ==
    {[fn |-> "thread_id", done |-> FALSE, t |-> t, p |-> p, path |-> path,
      url |-> WithQuery(host, path,
                        JoinFields(<<Field("f", f), Field("t", t), Field("p", p)>>),
                        fragment)] :
        host \in {Host, "https://[forum.wiara.pl"},
        path \in {"/viewtopic.php", "/watek/77", ""},
        f \in {NoneV, StrV("3")},
        t \in {NoneV, StrV("42"), StrV("abc"), StrV("")},
        p \in {NoneV, StrV("7")},
        fragment \in {"", "#p7"}}
    \cup {[fn |-> "thread_id", done |-> FALSE, t |-> NoneV, p |-> NoneV, path |-> "",
           url |-> ""]}

\* hrefs of the anchors of a section page
PageHrefs ==
    {"viewforum.php?f=1&start=50", "./viewforum.php?f=1&start=50",
     "viewforum.php?f=1&start=0", "viewforum.php?f=1&start=", "viewforum.php?f=1",
     "viewtopic.php?t=1&start=50", "viewforum.php?f=1&start=100#top"}

RECURSIVE SeqsUpTo(_, _)
SeqsUpTo(S, n) ==
    IF n = 0 THEN {<<>>}
    ELSE SeqsUpTo(S, n - 1) \cup {Append(s, x) : s \in SeqsUpTo(S, n - 1), x \in S}

\* Section pages (first page, with start=0, second page) and their anchors
PaginationInputs ==
    {[fn |-> "pagination", done |-> FALSE, url |-> url,
      anchors |-> [i \in 1..Len(hrefs) |-> Anchor(hrefs[i], FALSE)]] :
        url \in {S1, S1 \o "&start=0", S1Page2},
        hrefs \in SeqsUpTo(PageHrefs, MaxAnchors)}

\* Anchors of a thread page: inside and outside td.gensmall
ThreadPageAnchors ==
    {Anchor(href, gensmall) :
        href \in {"viewtopic.php?t=1&start=15", "./viewtopic.php?t=1&start=15",
                  "viewtopic.php?t=1", "viewforum.php?f=1"},
        gensmall \in BOOLEAN}

\* Pages of thread 1 (first, second) without post rows, and their anchors
ThreadPaginationInputs ==
    {[fn |-> "thread_pagination", done |-> FALSE, url |-> url, anchors |-> anchors] :
        url \in {T1, T1Page2},
        anchors \in SeqsUpTo(ThreadPageAnchors, MaxAnchors)}

\* The response for a thread page, with the context its request carried
ThreadResponse(url, posts, anchors) ==
    [url |-> url, page |-> Page(<<>>, <<>>, posts, anchors),
     meta |-> [thread_url |-> StrV(T1), thread_title |-> StrV("Hello World"),
               thread_id |-> StrV("1")]]

\* Rows of a section page: the header, threads 1 and 2, thread 1 again under
\* another title and href, and a row without a title link
SectionRows ==
    {HeaderRow, ThreadRow("Hello World", "viewtopic.php?t=1"),
     ThreadRow(" Hello ", "./viewtopic.php?t=1"), ThreadRow("Inny", "viewtopic.php?t=2"),
     [ThreadRow("", "viewtopic.php?t=2") EXCEPT !.title = NoneV]}

\* The first page of section 1 with up to MaxRows rows and no page bar
SectionThreadsInputs ==
    {[fn |-> "section_threads", done |-> FALSE, url |-> S1, rows |-> rows] :
        rows \in SeqsUpTo(SectionRows, MaxRows)}

\* Rows of a thread page: two posts, rows with one marker or none, and a
\* row whose author marker holds no text
ThreadRows ==
    {PostRow("Jan", StrV("viewtopic.php?p=11#p11"), "Dzien dobry"),
     PostRow(" Ola ", NoneV, "Szczesc Boze"),
     [PostRow("Jan", StrV("viewtopic.php?p=12#p12"), "Amen") EXCEPT !.postbody = FALSE],
     [PostRow("Ola", StrV("viewtopic.php?p=13#p13"), "Amen") EXCEPT !.postauthor = FALSE],
     DecorativeRow,
     [PostRow("", StrV("viewtopic.php?p=14#p14"), "Amen") EXCEPT !.author = NoneV],
     PostRow(" ", StrV("viewtopic.php?p=15#p15"), "Amen")}

\* The first page of thread 1 with up to MaxRows rows and a link to page 2
ThreadPostsInputs ==
    {[fn |-> "thread_posts", done |-> FALSE, url |-> T1, rows |-> rows] :
        rows \in SeqsUpTo(ThreadRows, MaxRows)}

\* The context a listing page arrives with: that of thread 1 or thread 2,
\* that of section 1 or section 2
PageContexts ==
    {[scope |-> "thread", thread_url |-> StrV(T1), thread_title |-> StrV("Hello World"),
      thread_id |-> StrV("1")],
     [scope |-> "thread", thread_url |-> StrV(T2), thread_title |-> StrV("Inny"),
      thread_id |-> StrV("2")],
     [scope |-> "section", section_url |-> StrV(S1), section_title |-> StrV("Sekcja")],
     [scope |-> "section", section_url |-> StrV(S2), section_title |-> StrV("Inna")]}

NextPageAnchors ==
    {Anchor("viewtopic.php?t=1&start=15", TRUE), Anchor("viewtopic.php?t=1&start=30", TRUE),
     Anchor("viewforum.php?f=1&start=50", TRUE), Anchor("viewforum.php?f=1&start=100", FALSE)}

\* A listing page of thread 1 or of section 1 with one row and up to
\* MaxAnchors links, arriving with each context
NextPagesInputs ==
    {[fn |-> "next_pages", done |-> FALSE, meta |-> meta, anchors |-> anchors] :
        meta \in PageContexts, anchors \in SeqsUpTo(NextPageAnchors, MaxAnchors)}

\* Count texts of a thread row: absent, empty, blank, not numbers, numbers
CountTexts ==
    {NoneV, StrV(""), StrV(" "), StrV("-"), StrV("12a"), StrV("1 234"), StrV(" 3 "),
     StrV("-3"), StrV("1_000")}

\* Post links: absent, empty, without p, with a p that is no number, with p
PostLinks ==
    {NoneV, StrV(""), StrV("viewtopic.php?t=1"), StrV("viewtopic.php?p=abc"),
     StrV("viewtopic.php?p=11#p11")}

\* A listing page with one row: a thread row with each pair of count texts,
\* a post row with each post link
OneRowInputs ==
    {[fn |-> "one_row", done |-> FALSE, scope |-> "section",
      row |-> [ThreadRow("Hello World", "viewtopic.php?t=1")
                  EXCEPT !.replies = r, !.views = v]] : r, v \in CountTexts}
    \cup {[fn |-> "one_row", done |-> FALSE, scope |-> "thread",
           row |-> PostRow("Jan", l, "Dzien dobry")] : l \in PostLinks}

InitHelpers ==
    /\ pipeline = NewPipeline
    /\ disk = EmptyDb
    /\ last = NoCall
    /\ nops = 0
    /\ runs = 0
    /\ crawl = NoCrawl
    /\ probe \in ThreadIdInputs \cup PaginationInputs \cup ThreadPaginationInputs
                   \cup SectionThreadsInputs \cup ThreadPostsInputs
                   \cup NextPagesInputs \cup OneRowInputs

\* _get_thread_id_from_url, as WiaraSpider overrides it and as
\* BaseForumSpider defines it
GetThreadId ==
    /\ probe.fn = "thread_id"
    /\ ~probe.done
    /\ probe' = [fn |-> "thread_id", done |-> TRUE, t |-> probe.t, p |-> probe.p,
                 path |-> probe.path, url |-> probe.url,
                 out |-> GetThreadIdFromUrl(probe.url),
                 base_out |-> BaseGetThreadIdFromUrl(probe.url)]
    /\ UNCHANGED <<pipeline, disk, last, nops, runs, crawl>>

\* _extract_pagination_links
PaginationLinks ==
    /\ probe.fn = "pagination"
    /\ ~probe.done
    /\ probe' = [fn |-> "pagination", done |-> TRUE, url |-> probe.url,
                 anchors |-> probe.anchors,
                 out |-> ExtractForumPaginationLinks(probe.url, probe.anchors,
                                                     "viewforum.php")]
    /\ UNCHANGED <<pipeline, disk, last, nops, runs, crawl>>

\* parse_thread_posts on a page without post rows: its follow-up requests
ThreadPaginationRequests ==
    /\ probe.fn = "thread_pagination"
    /\ ~probe.done
    /\ probe' = [fn |-> "thread_pagination", done |-> TRUE, url |-> probe.url,
                 anchors |-> probe.anchors,
                 out |-> Requests(parse_thread_posts(ThreadResponse(probe.url, <<>>,
                                                                    probe.anchors)))]
    /\ UNCHANGED <<pipeline, disk, last, nops, runs, crawl>>

\* parse_section_threads on a page without a page bar
SectionThreadsOutputs ==
    /\ probe.fn = "section_threads"
    /\ ~probe.done
    /\ probe' = [fn |-> "section_threads", done |-> TRUE, url |-> probe.url,
                 rows |-> probe.rows,
                 out |-> parse_section_threads(
                             [url |-> probe.url,
                              page |-> Page(<<>>, probe.rows, <<>>, <<>>),
                              meta |-> [section_url |-> StrV(probe.url),
                                        section_title |-> StrV("Sekcja")]])]
    /\ UNCHANGED <<pipeline, disk, last, nops, runs, crawl>>

\* parse_thread_posts on a page with a link to page 2
ThreadPostsOutputs ==
    /\ probe.fn = "thread_posts"
    /\ ~probe.done
    /\ probe' = [fn |-> "thread_posts", done |-> TRUE, url |-> probe.url,
                 rows |-> probe.rows,
                 out |-> parse_thread_posts(
                             ThreadResponse(probe.url, probe.rows,
                                 <<Anchor("viewtopic.php?t=1&start=15", TRUE)>>))]
    /\ UNCHANGED <<pipeline, disk, last, nops, runs, crawl>>

\* parse_thread_posts or parse_section_threads on a page that arrives with
\* the context probe.meta
NextPages ==
    /\ probe.fn = "next_pages"
    /\ ~probe.done
    /\ probe' = [fn |-> "next_pages", done |-> TRUE, meta |-> probe.meta,
                 anchors |-> probe.anchors,
                 out |-> IF probe.meta.scope = "thread"
                         THEN parse_thread_posts(
                                  [url |-> T1,
                                   page |-> Page(<<>>, <<>>,
                                                 <<PostRow("Jan", StrV("viewtopic.php?p=11#p11"),
                                                           "Dzien dobry")>>,
                                                 probe.anchors),
                                   meta |-> probe.meta])
                         ELSE parse_section_threads(
                                  [url |-> S1,
                                   page |-> Page(<<>>,
                                                 <<HeaderRow,
                                                   ThreadRow("Hello World", "viewtopic.php?t=1")>>,
                                                 <<>>, probe.anchors),
                                   meta |-> probe.meta])]
    /\ UNCHANGED <<pipeline, disk, last, nops, runs, crawl>>

\* parse_section_threads on a page with one thread row, parse_thread_posts
\* on a page with one post row
OneRowOutputs ==
    /\ probe.fn = "one_row"
    /\ ~probe.done
    /\ probe' = [fn |-> "one_row", done |-> TRUE, scope |-> probe.scope,
                 row |-> probe.row,
                 out |-> IF probe.scope = "section"
                         THEN parse_section_threads(
                                  [url |-> S1,
                                   page |-> Page(<<>>, <<HeaderRow, probe.row>>, <<>>, <<>>),
                                   meta |-> [section_url |-> StrV(S1),
                                             section_title |-> StrV("Sekcja")]])
                         ELSE parse_thread_posts(ThreadResponse(T1, <<probe.row>>, <<>>))]
    /\ UNCHANGED <<pipeline, disk, last, nops, runs, crawl>>

NextHelpers ==
    \/ GetThreadId
    \/ PaginationLinks
    \/ ThreadPaginationRequests
    \/ SectionThreadsOutputs
    \/ ThreadPostsOutputs
    \/ NextPages
    \/ OneRowOutputs

SpecHelpers == InitHelpers /\ [][NextHelpers]_vars

\* ------------------------------------------------ two reconcilers

\* Entities of every class, and an item of none
AllItems ==
    ForumItems \cup SectionItems \cup ThreadItems \cup UserItems \cup PostItems \cup OtherItems

\* Two reconcilers, each opened on an empty store of its own: pipeline is
\* the first; probe holds the second, the entities the first was fed and
\* how many of them the second has been fed. nops is the clock: it ticks at
\* every call, so the two reconcilers see the same entity at different times.
InitPair ==
    /\ pipeline = open_spider(NewPipeline, EmptyDb)
    /\ disk = EmptyDb
    /\ last = NoCall
    /\ nops = 0
    /\ runs = 0
    /\ crawl = NoCrawl
    /\ probe = [fn |-> "pair", other |-> open_spider(NewPipeline, EmptyDb),
                fed |-> <<>>, done |-> 0]

\* process_item of the first reconciler
FeedFirst ==
    \E item \in AllItems :
        /\ Len(probe.fed) < MaxFed
        /\ pipeline' = process_item(pipeline, item).p
        /\ disk' = IF process_item(pipeline, item).commit
                   THEN process_item(pipeline, item).p.db ELSE disk
        /\ probe' = [probe EXCEPT !.fed = Append(@, item)]
        /\ nops' = nops + 1
        /\ UNCHANGED <<last, runs, crawl>>

\* process_item of the second reconciler, on the next entity the first was fed
FeedSecond ==
    /\ probe.done < Len(probe.fed)
    /\ probe' = [probe EXCEPT
                    !.other = process_item(probe.other, probe.fed[probe.done + 1]).p,
                    !.done = @ + 1]
    /\ nops' = nops + 1
    /\ UNCHANGED <<pipeline, disk, last, runs, crawl>>

NextPair == FeedFirst \/ FeedSecond

SpecPair == InitPair /\ [][NextPair]_vars

\* ------------------------------------------------ the scrape command

\* FORUM_SPIDER_MAP
ForumSpiders == {"dolina_modlitwy", "radio_katolik", "wiara", "z_chrystusem"}

CallReturns_AtOnce(running, child) == TRUE

\* subprocess.call returns once the child it started has exited
CallReturns(running, child) == child \notin running

\* scrape_forums after the plan is confirmed: probe holds the forums asked
\* for, the index of the loop, where the command is (at the head of the
\* loop, inside subprocess.call, or past the loop), the crawl processes that
\* run, those that have exited, the last exit code and the failed forums.
\* pipeline is the reconciler of the crawl process started last.
InitScrape ==
    /\ pipeline = NewPipeline
    /\ disk = EmptyDb
    /\ last = NoCall
    /\ nops = 0
    /\ runs = 0
    /\ crawl = NoCrawl
    /\ probe \in {[fn |-> "scrape", forums |-> fs, idx |-> 1, at |-> "loop",
                    running |-> {}, exited |-> {}, rc |-> 0, failed |-> <<>>,
                    wrote |-> FALSE] : fs \in SeqsUpTo(ForumSpiders, MaxTargets)}

\* subprocess.call starts `scrapy crawl` for the forum at the index; the
\* crawl process opens the unified store
ScrapeCall ==
    /\ probe.fn = "scrape"
    /\ probe.at = "loop"
    /\ probe.idx <= Len(probe.forums)
    /\ probe' = [probe EXCEPT !.at = "call", !.running = @ \cup {probe.idx},
                              !.wrote = FALSE]
    /\ pipeline' = open_spider(NewPipeline, disk)
    /\ runs' = runs + 1
    /\ UNCHANGED <<disk, last, nops, crawl>>

\* A running crawl process reconciles the Forum entity of its spider
ChildWrite ==
    /\ probe.fn = "scrape"
    /\ probe.running # {}
    /\ ~probe.wrote
    /\ pipeline.connection = "open"
    /\ \E k \in probe.running :
          LET r == process_item(pipeline,
                                [kind |-> "ForumItem",
                                 spider_name |-> StrV(probe.forums[k]),
                                 title |-> StrV(probe.forums[k])])
          IN  /\ pipeline' = r.p
              /\ disk' = IF r.commit THEN r.p.db ELSE disk
    /\ probe' = [probe EXCEPT !.wrote = TRUE]
    /\ nops' = nops + 1
    /\ UNCHANGED <<last, runs, crawl>>

\* A crawl process closes its store and exits, with code 0 or not
ChildExit ==
    /\ probe.fn = "scrape"
    /\ probe.at # "end"
    /\ \E k \in probe.running, rc \in {0, 1} :
          probe' = [probe EXCEPT !.running = @ \ {k}, !.exited = @ \cup {k}, !.rc = rc]
    /\ pipeline' = close_spider(pipeline)
    /\ disk' = pipeline.db
    /\ UNCHANGED <<last, nops, runs, crawl>>

\* subprocess.call returns the exit code: a code other than 0 puts the forum
\* on the failed list, and the loop goes on with the next forum
CallReturn ==
    /\ probe.fn = "scrape"
    /\ probe.at = "call"
    /\ CallReturns(probe.running, probe.idx)
    /\ probe' = [probe EXCEPT
                    !.at = "loop",
                    !.idx = @ + 1,
                    !.failed = IF probe.rc # 0 THEN Append(@, probe.forums[probe.idx])
                               ELSE @]
    /\ UNCHANGED <<pipeline, disk, last, nops, runs, crawl>>

\* KeyboardInterrupt inside subprocess.call: the child is sent a kill and
\* the loop is left
Interrupt ==
    /\ probe.fn = "scrape"
    /\ probe.at = "call"
    /\ probe' = [probe EXCEPT !.at = "end"]
    /\ UNCHANGED <<pipeline, disk, last, nops, runs, crawl>>

\* The killed crawl process is gone, what it had not committed with it
ChildKilled ==
    /\ probe.fn = "scrape"
    /\ probe.at = "end"
    /\ \E k \in probe.running :
          probe' = [probe EXCEPT !.running = @ \ {k}, !.exited = @ \cup {k}, !.rc = 1]
    /\ pipeline' = [close_spider(pipeline) EXCEPT !.db = disk]
    /\ UNCHANGED <<disk, last, nops, runs, crawl>>

NextScrape ==
    \/ ScrapeCall
    \/ ChildWrite
    \/ ChildExit
    \/ CallReturn
    \/ Interrupt
    \/ ChildKilled

SpecScrape == InitScrape /\ [][NextScrape]_vars

\* ------------------------------------------------------------ properties

\* The last call was process_item on an item of this class, with the store open.
Called(kind) ==
    /\ last.op = "process_item"
    /\ last.item.kind = kind
    /\ pipeline.connection = "open"

\* The rows of a table whose column col holds v
RowsWith(rows, col, v) == {r \in rows : r[col] = v}

\* The rows a table held before the last call
RowsBefore(t) == (pipeline.db[t] \ last.inserted[t]) \cup last.deleted[t]

\* C1: after any upsert of a section with URL u there is exactly one sections
\* row with url = u, and section_url_to_id[u] is the id of that row.
C1_SectionUpsertOneRowSameId ==
    Called("ForumSectionItem") =>
        LET u == last.item.url
            rows == RowsWith(pipeline.db.sections, "url", u)
        IN  /\ ~last.raised
            /\ Cardinality(rows) = 1
            /\ u.s \in DOMAIN pipeline.section_url_to_id
            /\ \A r \in rows : pipeline.section_url_to_id[u.s] = r.id

\* C2: after an upsert of a post with thread id t and sequence number n,
\* there is exactly one posts row for (t, n) and it has the content of this
\* upsert, whatever an earlier upsert of (t, n) had stored.
C2_PostUpsertLastWriteWins ==
    (Called("ForumPostItem") /\ last.item.post_number.k # "none"
                             /\ last.item.thread_id.k # "none") =>
        LET rows == {r \in pipeline.db.posts :
                        /\ r.thread_id = Affinity(last.item.thread_id)
                        /\ r.post_number = last.item.post_number}
        IN  /\ ~last.raised
            /\ Cardinality(rows) = 1
            /\ \A r \in rows : r.content = last.item.content

\* C2 witness: the upsert replaced a row of the same (t, n) that had other content.
C2_Witness ==
    /\ Called("ForumPostItem")
    /\ last.item.post_number.k # "none"
    /\ \E r \in last.deleted.posts :
          /\ r.post_number = last.item.post_number
          /\ r.content # last.item.content

\* C3: a post sent with a username and no user_id, after a user of that name
\* was upserted in this run, is stored with the id of that users row.
C3_PostUserIdIsTheUsersRow ==
    (/\ Called("ForumPostItem")
     /\ ~Truthy(last.item.user_id)
     /\ last.item.username.s \in DOMAIN pipeline.user_name_to_id) =>
        /\ ~last.raised
        /\ last.inserted.posts # {}
        /\ \A r \in last.inserted.posts :
              \E u \in pipeline.db.users :
                  u.username = last.item.username /\ r.user_id = IntV(u.id)

\* C5: a thread whose section reference is absent, or is a lookup key that
\* is not in section_url_to_id, is upserted without an error and a threads
\* row for its URL is stored, the row of this call with a null section_id.
C5_ThreadWithUnresolvedSectionIsStored ==
    (/\ Called("ForumThreadItem")
     /\ LET section_id == Get(last.item, "section_id")
        IN  \/ section_id.k = "none" /\ Get(last.item, "section_url").k = "none"
            \/ IsStr(section_id) /\ section_id.s \notin DOMAIN pipeline.section_url_to_id) =>
        /\ ~last.raised
        /\ RowsWith(pipeline.db.threads, "url", last.item.url) # {}
        /\ \A r \in last.inserted.threads : r.section_id = NoneV

\* C6: a section whose forum reference is a key in neither forum cache is
\* upserted without an error; the row it stores has forum_id null, there is
\* one row for its URL, and section_url_to_id has the URL (with the id of
\* the row this call stored).
C6_SectionWithUnknownForumKey ==
    (/\ Called("ForumSectionItem")
     /\ IsStr(last.item.forum_id)
     /\ last.item.forum_id.s \notin DOMAIN pipeline.forum_name_to_id
     /\ last.item.forum_id.s \notin DOMAIN pipeline.forum_url_to_id) =>
        LET url == last.item.url
        IN  /\ ~last.raised
            /\ Cardinality(RowsWith(pipeline.db.sections, "url", url)) = 1
            /\ RowsWith(RowsBefore("sections"), "url", url) = {} => last.inserted.sections # {}
            /\ url.s \in DOMAIN pipeline.section_url_to_id
            /\ \A r \in last.inserted.sections :
                  /\ r.url = url
                  /\ r.forum_id = NoneV
                  /\ pipeline.section_url_to_id[url.s] = r.id

\* C6 witness: such a section was stored by the call.
C6_Witness ==
    /\ Called("ForumSectionItem")
    /\ IsStr(last.item.forum_id)
    /\ last.item.forum_id.s \notin DOMAIN pipeline.forum_name_to_id
    /\ last.item.forum_id.s \notin DOMAIN pipeline.forum_url_to_id
    /\ \E r \in last.inserted.sections : r.forum_id = NoneV

\* C7: upserting a thread whose URL is already stored raises nothing, leaves
\* the threads table as it was, and thread_url_to_id maps the URL to the id
\* of the stored row.
C7_ThreadReupsertIsNoOp ==
    (/\ Called("ForumThreadItem")
     /\ RowsWith(RowsBefore("threads"), "url", last.item.url) # {}) =>
        /\ ~last.raised
        /\ last.inserted.threads = {}
        /\ last.deleted.threads = {}
        /\ last.item.url.s \in DOMAIN pipeline.thread_url_to_id
        /\ \A r \in RowsWith(pipeline.db.threads, "url", last.item.url) :
              pipeline.thread_url_to_id[last.item.url.s] = r.id

\* C8: upserting a user whose username is already stored leaves the users
\* table as it was (the stored join_date, posts_count, religion, gender and
\* localization stay), with one row for the username.
C8_UserFirstWriteWins ==
    (/\ Called("ForumUserItem")
     /\ RowsWith(RowsBefore("users"), "username", last.item.username) # {}) =>
        /\ ~last.raised
        /\ last.inserted.users = {}
        /\ last.deleted.users = {}
        /\ Cardinality(RowsWith(pipeline.db.users, "username", last.item.username)) = 1

\* C8 witness: the second upsert carried other values than the stored row.
C8_Witness ==
    /\ Called("ForumUserItem")
    /\ last.inserted.users = {}
    /\ \E r \in pipeline.db.users :
          /\ r.username = last.item.username
          /\ r.join_date # Get(last.item, "join_date")
          /\ r.religion # Get(last.item, "religion")

\* The one row of a set of rows
TheRow(rows) == CHOOSE r \in rows : TRUE

\* C9: read-your-writes.  When a call has just inserted a parent row, the
\* very next call, on a child that names that parent by its lookup key, is
\* not refused and the row it stores refers to the parent's id: forum ->
\* section by source name, section -> thread by URL, user -> post by username.
C9_Step ==
    (/\ last.op = "process_item" /\ ~last.raised
     /\ last'.op = "process_item" /\ nops' = nops + 1
     /\ pipeline.connection = "open") =>
        /\ (/\ last.item.kind = "ForumItem"
            /\ last'.item.kind = "ForumSectionItem"
            /\ last'.item.forum_id = last.item.spider_name) =>
               /\ ~last'.raised
               /\ \A r \in last'.inserted.sections :
                     r.forum_id = IntV(TheRow(last.inserted.forums).id)
        /\ (/\ last.item.kind = "ForumSectionItem"
            /\ last.inserted.sections # {}
            /\ last'.item.kind = "ForumThreadItem"
            /\ Get(last'.item, "section_id") = last.item.url) =>
               /\ ~last'.raised
               /\ \A r \in last'.inserted.threads :
                     r.section_id = IntV(TheRow(last.inserted.sections).id)
        /\ (/\ last.item.kind = "ForumUserItem"
            /\ last.inserted.users # {}
            /\ last'.item.kind = "ForumPostItem"
            /\ ~Truthy(last'.item.user_id)
            /\ last'.item.username = last.item.username) =>
               /\ ~last'.raised
               /\ \A r \in last'.inserted.posts :
                     r.user_id = IntV(TheRow(last.inserted.users).id)

C9_ReadYourWrites == [][C9_Step]_vars

\* C9 witness: the second call of a run stored a section under the forum
\* that the first call of the run had inserted.
C9_Witness ==
    /\ Called("ForumSectionItem")
    /\ nops = 2 /\ runs = 1
    /\ last.item.forum_id = StrV(SpiderName)
    /\ \E r \in last.inserted.sections :
          \E f \in pipeline.db.forums : r.forum_id = IntV(f.id)

\* C10: a thread that names its section by section_url.  If no sections row
\* has the URL, the call adds one placeholder row with that URL and forum_id
\* null; otherwise it adds none.  Either way there is one row for the URL,
\* section_url_to_id maps the URL to its id, and the threads row the call
\* stores has that id as section_id.  The call raises only for a thread with
\* a column value that cannot be bound.
C10_PlaceholderSection ==
    (/\ Called("ForumThreadItem")
     /\ ~Truthy(Get(last.item, "section_id"))
     /\ Truthy(Get(last.item, "section_url"))) =>
        LET url == last.item.section_url
            rows == RowsWith(pipeline.db.sections, "url", url)
        IN  /\ last.raised => \E c \in ThreadColumns : Unbindable(Get(last.item, c))
            /\ Cardinality(rows) = 1
            /\ last.deleted.sections = {}
            /\ IF RowsWith(RowsBefore("sections"), "url", url) = {}
               THEN /\ last.inserted.sections = rows
                    /\ TheRow(rows).forum_id = NoneV
               ELSE last.inserted.sections = {}
            /\ url.s \in DOMAIN pipeline.section_url_to_id
            /\ pipeline.section_url_to_id[url.s] = TheRow(rows).id
            /\ \A r \in last.inserted.threads : r.section_id = IntV(TheRow(rows).id)

\* C10 witness: the call created the placeholder and stored the thread under it.
C10_Witness ==
    /\ Called("ForumThreadItem")
    /\ Truthy(Get(last.item, "section_url"))
    /\ \E sec \in last.inserted.sections :
          /\ sec.forum_id = NoneV
          /\ \E r \in last.inserted.threads : r.section_id = IntV(sec.id)


\* C4: a second run of the whole crawl over the same pages, against the store
\* the first run left, leaves every table with the row count it had after
\* the first run.
C4_SecondRunKeepsRowCounts ==
    Len(crawl.counts) >= 2 => crawl.counts[2] = crawl.counts[1]

\* C11: a post is upserted without an error and stored whatever its thread_id
\* and user are, also when no threads row and no users row exists for them;
\* a post sent with a username only, for which no users row exists, is stored
\* with user_id null.
C11_PostStoredWithoutParents ==
    Called("ForumPostItem") =>
        /\ ~last.raised
        /\ Cardinality(last.inserted.posts) = 1
        /\ \A r \in last.inserted.posts :
              /\ r.thread_id = Affinity(last.item.thread_id)
              /\ r.username = last.item.username
              /\ (/\ ~Truthy(last.item.user_id)
                  /\ RowsWith(pipeline.db.users, "username", last.item.username) = {})
                 => r.user_id = NoneV

C11_Witness ==
    /\ Called("ForumPostItem")
    /\ pipeline.db.threads = {}
    /\ pipeline.db.users = {}
    /\ ~Truthy(last.item.user_id)
    /\ \E r \in last.inserted.posts : r.user_id = NoneV /\ r.thread_id = IntV(1)

\* The five classes of entities
EntityKinds ==
    {"ForumItem", "ForumSectionItem", "ForumThreadItem", "ForumUserItem", "ForumPostItem"}

\* C12: when an upsert returns, every row it wrote is committed, and with
\* it everything the connection held; a call that returns without a commit
\* wrote nothing. So a crash loses no row written by a call that returned:
\* what a crash loses was written by calls that did not return.
C12_ReturnedUpsertsAreCommitted ==
    /\ (Called(last.item.kind) /\ ~last.raised /\ last.item.kind \in EntityKinds)
          => disk = pipeline.db
    /\ (Called(last.item.kind) /\ ~last.raised)
          => \A t \in Tables : last.inserted[t] \subseteq disk[t]
    /\ (last.op = "crash" /\ ~last.raised) =>
          \A t \in Tables :
              /\ last.deleted[t] \cap last.inserted[t] = {}
              /\ last.item.kind \in EntityKinds => last.deleted[t] = {}

C12_Witness ==
    /\ last.op = "crash"
    /\ last.item.kind = "ForumThreadItem"
    /\ last.inserted.sections # {}
    /\ last.inserted.threads # {}
    /\ last.inserted.sections \subseteq disk.sections
    /\ last.inserted.threads \subseteq disk.threads

\* C13: for a URL whose query has a numeric t, or no t and a numeric p, the
\* thread-id extractor the parser calls returns that number as an integer;
\* for a URL with neither key it returns none.
C13_ThreadIdIsTheNumericKey ==
    (probe.fn = "thread_id" /\ probe.done) =>
        /\ (Truthy(probe.t) /\ IsDigit(probe.t.s)) => probe.out = IntV(ParseInt(probe.t.s))
        /\ (probe.t.k = "none" /\ probe.p.k # "none") => probe.out = IntV(ParseInt(probe.p.s))
        /\ (probe.t.k = "none" /\ probe.p.k = "none") => probe.out = NoneV

\* C14: the pagination links of a page hold no URL whose start offset is the
\* page's own (no offset counting as "0") and no URL twice.
C14_PaginationLinksExcludeSelfAndDuplicates ==
    (probe.fn = "pagination" /\ probe.done) =>
        /\ \A i \in 1..Len(probe.out) : StartOf(probe.out[i]) # StartOf(probe.url)
        /\ \A i, j \in 1..Len(probe.out) : probe.out[i] = probe.out[j] => i = j

C14_Witness ==
    /\ probe.fn = "pagination" /\ probe.done
    /\ probe.url = S1
    /\ probe.anchors = <<Anchor("viewforum.php?f=1&start=", FALSE),
                         Anchor("viewforum.php?f=1&start=50", FALSE)>>
    /\ probe.out = <<S1Page2>>


\* The t parameter of a thread URL, as parse_qs gives it
TParam(u) == QsGet(UrlQuery(u), "t", NoneV)

IsThreadItemAt(outbox, i) ==
    outbox[i].o = "item" /\ outbox[i].item.kind = "ForumThreadItem"

\* The output after a Thread entity is the request for the entity's URL
RequestFollows(outbox, i) ==
    /\ i < Len(outbox)
    /\ outbox[i + 1].o = "request"
    /\ outbox[i + 1].req.url = outbox[i].item.url.s
    /\ outbox[i + 1].req.callback = "parse_thread_posts"

\* C15: in the outputs of a section page, each Thread entity with URL u is
\* followed immediately by a request to exactly u, handled by
\* parse_thread_posts, whose context carries the integer of u's t parameter.
C15_ThreadRequestCarriesIntegerId ==
    crawl.only_thread_url = NoneV =>
    \A i \in 1..Len(crawl.outbox) :
        IsThreadItemAt(crawl.outbox, i) =>
            /\ RequestFollows(crawl.outbox, i)
            /\ crawl.outbox[i + 1].req.meta.thread_id
                 = IntV(ParseInt(TParam(crawl.outbox[i].item.url.s).s))

\* C15, the part the code keeps: the request follows its Thread entity at
\* once, goes to the entity's URL, and carries the t parameter as text.
C15_ThreadRequestCarriesTextId ==
    crawl.only_thread_url = NoneV =>
    \A i \in 1..Len(crawl.outbox) :
        IsThreadItemAt(crawl.outbox, i) =>
            /\ RequestFollows(crawl.outbox, i)
            /\ crawl.outbox[i + 1].req.meta.thread_id
                 = TParam(crawl.outbox[i].item.url.s)

\* The start output of direct-thread mode for thread URL u with f parameter f
OnlyThreadStartShape(out, u, f, n) ==
    /\ Len(out) = n
    /\ out[1].o = "item" /\ out[1].item.kind = "ForumItem"
    /\ Truthy(f) =>
          /\ out[2].o = "item" /\ out[2].item.kind = "ForumSectionItem"
          /\ out[2].item.url = StrV(UrlOrigin(u) \o "/viewforum.php?f=" \o f.s)
    /\ out[n - 1].o = "item" /\ out[n - 1].item.kind = "ForumThreadItem"
    /\ out[n - 1].item.url = StrV(u)
    /\ out[n].o = "request" /\ out[n].req.url = u
    /\ out[n].req.callback = "parse_thread_posts"

FParam(u) == QsGet(UrlQuery(u), "f", NoneV)

\* C16: with only_thread_url set the start output is one Forum, one minimal
\* Section when the thread URL has an f parameter (viewforum.php?f=<f> on the
\* thread's host), one minimal Thread for the URL, then one request to the
\* URL handled by parse_thread_posts; no request of the crawl is handled by
\* parse or parse_section_threads.
C16_OnlyThreadStartOutput ==
    Truthy(crawl.only_thread_url) =>
        /\ last.op = "open_spider" =>
              OnlyThreadStartShape(crawl.outbox, crawl.only_thread_url.s,
                                   FParam(crawl.only_thread_url.s),
                                   IF Truthy(FParam(crawl.only_thread_url.s)) THEN 4 ELSE 3)
        /\ \A i \in 1..Len(crawl.pending) :
              crawl.pending[i].callback = "parse_thread_posts"
        /\ \A i \in 1..Len(crawl.outbox) :
              crawl.outbox[i].o = "request" =>
                  crawl.outbox[i].req.callback = "parse_thread_posts"

\* C16: the start output of a run given a thread URL with an f parameter
C16_Witness ==
    /\ crawl.only_thread_url = StrV(T1InSection)
    /\ last.op = "open_spider"
    /\ Len(crawl.outbox) = 4
    /\ crawl.outbox[2].item.url = StrV(S1)
    /\ crawl.outbox[3].item.section_url = StrV(S1)
    /\ crawl.outbox[4].req.meta.thread_id = StrV("1")

\* A call of process_item on a pipeline whose connection is None
C17_Step ==
    (nops' = nops + 1 /\ pipeline.connection # "open") =>
        /\ last'.op = "process_item"
        /\ last'.raised
        /\ pipeline' = pipeline
        /\ disk' = disk

\* C17: with the connection not opened, or closed by close_spider,
\* process_item raises for any entity and leaves the store, the connection
\* and every lookup cache as they were.
C17_UnavailableStoreRaises == [][C17_Step]_vars

\* C17: process_item raised on a closed pipeline that holds rows and a
\* cached forum
C17_Witness ==
    /\ last.op = "process_item"
    /\ last.raised
    /\ pipeline.connection = "closed"
    /\ last.item.kind = "ForumSectionItem"
    /\ pipeline.forum_name_to_id # EmptyDict
    /\ disk.forums # {}

\* outbox holds the whole output of parse for the root page
RootPageParsed ==
    /\ crawl.only_thread_url = NoneV
    /\ crawl.outbox # <<>>
    /\ Head(crawl.outbox).o = "item"
    /\ Head(crawl.outbox).item.kind = "ForumItem"

SectionEmitted(outbox, url) ==
    \E j \in 1..Len(outbox) :
        /\ outbox[j].o = "item"
        /\ outbox[j].item.kind = "ForumSectionItem"
        /\ outbox[j].item.url = StrV(url)

\* C18, for the root page: a section link whose extraction fails is left
\* out alone; every well-formed link of the page still gives its Section.
C18_RootKeepsLaterLinks ==
    RootPageParsed =>
        \A i \in 1..Len(crawl.site[ForumUrl].forumlinks) :
            crawl.site[ForumUrl].forumlinks[i].text.k = "str" =>
                SectionEmitted(crawl.outbox,
                               UrlJoin(ForumUrl, crawl.site[ForumUrl].forumlinks[i].href))

\* C19: the forums table of the store holds at most one row per source
\* name, whatever the number of runs.
C19_OneForumRowPerSource ==
    \A r1 \in disk.forums : \A r2 \in disk.forums :
        r1.spider_name = r2.spider_name => r1 = r2

\* C20: on a site of finitely many pages the driver that fetches every
\* request the spider returns comes to have no pending request and closes
\* the spider.
C20_CrawlEnds == <>(last.op = "close_spider")

\* The driver's step is enabled exactly when DriverCanStep holds: it is
\* never a step that leaves vars as they are.
DriverStepsChangeVars == [][NextDriver => vars' # vars]_vars

\* The crawl of a site without page bars does end
AcyclicCrawlEnds == (crawl.site \in Sites) => <>(last.op = "close_spider")

\* Every entry of a cache names the id of the stored row with that key
CacheAgrees(cache, rows, col) ==
    \A key \in DOMAIN cache :
        \E r \in rows : r[col] = StrV(key) /\ r.id = cache[key]

\* C21: after any sequence of upserts, every entry key -> id of
\* section_url_to_id, thread_url_to_id and user_name_to_id is the id of the
\* stored row of that table with that URL or username.
C21_CachesNameTheStoredRows ==
    pipeline.connection = "open" =>
        /\ CacheAgrees(pipeline.section_url_to_id, pipeline.db.sections, "url")
        /\ CacheAgrees(pipeline.thread_url_to_id, pipeline.db.threads, "url")
        /\ CacheAgrees(pipeline.user_name_to_id, pipeline.db.users, "username")

\* The store holds the thread with this URL under the section with that URL
ThreadStoredUnder(db, url, section_url) ==
    \E r \in db.threads : \E s \in db.sections :
        r.url = url /\ s.url = section_url /\ r.section_id = IntV(s.id)

\* A stored post refers to the threads row of the thread with this URL
PostsReferTo(db, thread_url) ==
    \A q \in db.posts :
        \E r \in db.threads : r.url = thread_url /\ q.thread_id = IntV(r.id)

\* C22: in a crawl from the root, every stored post (all come from pages of
\* thread 1, met after the thread's row) has as thread_id the id of the
\* threads row of thread 1.
C22_PostsReferToTheThreadsRow ==
    crawl.only_thread_url = NoneV => PostsReferTo(pipeline.db, StrV(T1))

\* C23: in a crawl from the root, once a Thread entity of a page of section 1
\* is reconciled, the store holds a threads row for its URL whose section_id
\* is the id of the row of section 1.
C23_ThreadStoredUnderItsSection ==
    (crawl.only_thread_url = NoneV /\ Called("ForumThreadItem")) =>
        ThreadStoredUnder(pipeline.db, last.item.url, StrV(S1))

\* In a crawl of the thread alone, given with its f parameter, the thread and
\* its posts are stored under their parents
OnlyThreadStoredUnderItsSection ==
    (crawl.only_thread_url = StrV(T1InSection)
     /\ (Called("ForumThreadItem") \/ Called("ForumPostItem"))) =>
        /\ ThreadStoredUnder(pipeline.db, StrV(T1InSection), StrV(S1))
        /\ PostsReferTo(pipeline.db, StrV(T1InSection))

\* C24: the follow-up requests of a thread page never go to the page's own
\* URL and never to one URL twice.
C24_ThreadFollowUpsExcludeSelfAndDuplicates ==
    (probe.fn = "thread_pagination" /\ probe.done) =>
        /\ \A i \in 1..Len(probe.out) : probe.out[i].url # probe.url
        /\ \A i, j \in 1..Len(probe.out) :
              probe.out[i].url = probe.out[j].url => i = j

IsNumeric(v) == Truthy(v) /\ IsDigit(v.s)

\* The keys in priority order: t, then p, then the digits the path ends with
ByPriority(t, p, path, out) ==
    /\ IsNumeric(t) => out = IntV(ParseInt(t.s))
    /\ (~IsNumeric(t) /\ IsNumeric(p)) => out = IntV(ParseInt(p.s))
    /\ (~IsNumeric(t) /\ ~IsNumeric(p) /\ TrailingDigits(path) # "") =>
          out = IntV(ParseInt(TrailingDigits(path)))
    /\ (~IsNumeric(t) /\ ~IsNumeric(p) /\ TrailingDigits(path) = "") => out = NoneV

\* C25: BaseForumSpider._get_thread_id_from_url returns a numeric t even when
\* p is there too, else a numeric p, else the digits the path ends with, else
\* none; and it raises for no URL string, the empty and the malformed included.
C25_ThreadIdByPriorityNeverRaises ==
    (probe.fn = "thread_id" /\ probe.done) =>
        /\ probe.base_out # RaisedV
        /\ probe.url # "" => ByPriority(probe.t, probe.p, probe.path, probe.base_out)
        /\ probe.url = "" => probe.base_out = NoneV

\* C25, the part the code keeps: the priority order, for the URLs that
\* urlparse accepts
ThreadIdByPriorityWhenParsed ==
    (probe.fn = "thread_id" /\ probe.done /\ probe.base_out # RaisedV) =>
        /\ probe.url # "" => ByPriority(probe.t, probe.p, probe.path, probe.base_out)
        /\ probe.url = "" => probe.base_out = NoneV

\* A row of a section page that gives a thread: not the first row, with a
\* .row1/.row2 cell, a title and an href
IsThreadRow(row) ==
    ~row.first_child /\ row.row_class /\ Truthy(row.title) /\ Truthy(row.href)

\* The thread rows of the page that resolve to this URL
RowsOfUrl(page_url, rows, u) ==
    {n \in 1..Len(rows) : IsThreadRow(rows[n]) /\ UrlJoin(page_url, rows[n].href) = u}

FirstOf(S) == CHOOSE n \in S : \A k \in S : n <= k

IsThreadRequestAt(out, i) ==
    out[i].o = "request" /\ out[i].req.callback = "parse_thread_posts"

\* C26: on one section page each thread URL gives at most one Thread entity
\* and at most one thread request, those of its first row in document order;
\* a later row with a URL already seen gives nothing.
C26_OneThreadPerUrlOnAPage ==
    (probe.fn = "section_threads" /\ probe.done) =>
        /\ \A i, j \in 1..Len(probe.out) :
              (IsThreadItemAt(probe.out, i) /\ IsThreadItemAt(probe.out, j)
               /\ probe.out[i].item.url = probe.out[j].item.url) => i = j
        /\ \A i, j \in 1..Len(probe.out) :
              (IsThreadRequestAt(probe.out, i) /\ IsThreadRequestAt(probe.out, j)
               /\ probe.out[i].req.url = probe.out[j].req.url) => i = j
        /\ \A i \in 1..Len(probe.out) :
              IsThreadItemAt(probe.out, i) =>
                  /\ RowsOfUrl(probe.url, probe.rows, probe.out[i].item.url.s) # {}
                  /\ probe.out[i].item.title
                       = StrV(Strip(probe.rows[FirstOf(RowsOfUrl(probe.url, probe.rows,
                                        probe.out[i].item.url.s))].title.s))
        /\ Len(probe.out)
             = 2 * Cardinality({UrlJoin(probe.url, probe.rows[n].href) :
                                   n \in {k \in 1..Len(probe.rows) :
                                             IsThreadRow(probe.rows[k])}})

\* C26: thread 1 is listed under two hrefs, with thread 2 between them
C26_Witness ==
    /\ probe.fn = "section_threads" /\ probe.done
    /\ probe.rows = <<ThreadRow(" Hello ", "./viewtopic.php?t=1"),
                      ThreadRow("Inny", "viewtopic.php?t=2"),
                      ThreadRow("Hello World", "viewtopic.php?t=1")>>
    /\ Len(probe.out) = 4
    /\ probe.out[1].item.title = StrV("Hello")
    /\ probe.out[3].item.url = StrV(T2)

\* The entities of one class among the outputs of a callback, in order
ItemsOf(out, kind) == SelectSeq(out, LAMBDA o : o.o = "item" /\ o.item.kind = kind)

\* The rows with both markers, and an author to read, in order
PostRowsOf(rows) ==
    SelectSeq(rows, LAMBDA r : r.postauthor /\ r.postbody /\ Truthy(r.author))

\* The entities are those of the rows, one for one and in order
EntitiesOfRows(items, rows) ==
    /\ Len(items) = Len(rows)
    /\ \A i \in 1..Len(items) : items[i].item.username = StrV(Strip(rows[i].author.s))

\* C27: on a thread page the User and Post entities are those of the rows
\* that have both the author marker and the body marker, in order: a row
\* without one of them gives nothing and the rows after it are processed.
C27_OnlyRowsWithBothMarkers ==
    (probe.fn = "thread_posts" /\ probe.done) =>
        /\ EntitiesOfRows(ItemsOf(probe.out, "ForumUserItem"), PostRowsOf(probe.rows))
        /\ EntitiesOfRows(ItemsOf(probe.out, "ForumPostItem"), PostRowsOf(probe.rows))
        /\ Len(probe.out) = 2 * Len(PostRowsOf(probe.rows)) + 1

\* C27: a row with the author marker alone, a decorative row, then a post
C27_Witness ==
    /\ probe.fn = "thread_posts" /\ probe.done
    /\ Len(probe.rows) = 3
    /\ probe.rows[1].postauthor /\ ~probe.rows[1].postbody
    /\ probe.rows[2] = DecorativeRow
    /\ Len(probe.out) = 3
    /\ probe.out[2].item.kind = "ForumPostItem"
    /\ probe.out[2].item.username = StrV("Ola")

\* C28: every post stored from a crawled page names a user.
C28_StoredPostsHaveAUser ==
    \A q \in pipeline.db.posts : q.user_id # NoneV

\* The Post entity of a row comes right after the User entity of the same
\* author
UserBeforePost ==
    (probe.fn = "thread_posts" /\ probe.done) =>
        \A i \in 1..Len(probe.out) :
            (probe.out[i].o = "item" /\ probe.out[i].item.kind = "ForumPostItem") =>
                /\ i > 1
                /\ probe.out[i - 1].o = "item"
                /\ probe.out[i - 1].item.kind = "ForumUserItem"
                /\ probe.out[i - 1].item.username = probe.out[i].item.username

\* The forum row inserted in the current run, as _save_forum caches it
ForumOfThisRun == IntV(pipeline.forum_name_to_id["wiara"])

\* C29: once a Section entity of the root page is reconciled, the section's
\* row refers to the forum row inserted in this run.
C29_SectionStoredUnderThisRunsForum ==
    (/\ Called("ForumSectionItem")
     /\ ~last.raised
     /\ crawl.only_thread_url = NoneV
     /\ "wiara" \in DOMAIN pipeline.forum_name_to_id) =>
        \E s \in pipeline.db.sections :
            s.url = last.item.url /\ s.forum_id = ForumOfThisRun

\* The Root handler emits the Forum entity first, and each Section entity
\* right before the request for that section's listing
RootEmissionOrder ==
    (RootPageParsed /\ crawl.outbox # <<>>) =>
        \A i \in 1..Len(crawl.outbox) :
            (crawl.outbox[i].o = "item" /\ crawl.outbox[i].item.kind = "ForumSectionItem") =>
                /\ i < Len(crawl.outbox)
                /\ crawl.outbox[i + 1].o = "request"
                /\ crawl.outbox[i + 1].req.url = crawl.outbox[i].item.url.s

\* The follow-up requests of a listing page: those handled by the callback
\* that handled the page
FollowUps(out, callback) ==
    SelectSeq(out, LAMBDA o : o.o = "request" /\ o.req.callback = callback)

CarriesAll(reqs, meta, keys) ==
    \A i \in 1..Len(reqs) : \A k \in keys : Get(reqs[i].req.meta, k) = Get(meta, k)

\* C30: the follow-ups of a thread page carry the page's thread_url,
\* thread_title and thread_id, and the page's posts carry that thread_id;
\* the follow-ups of a section page carry the page's section_url and
\* section_title.
C30_FollowUpsCarryTheContext ==
    (probe.fn = "next_pages" /\ probe.done) =>
        IF probe.meta.scope = "thread"
        THEN /\ CarriesAll(FollowUps(probe.out, "parse_thread_posts"), probe.meta,
                           {"thread_url", "thread_title", "thread_id"})
             /\ \A i \in 1..Len(probe.out) :
                    (probe.out[i].o = "item" /\ probe.out[i].item.kind = "ForumPostItem")
                        => probe.out[i].item.thread_id = probe.meta.thread_id
        ELSE CarriesAll(FollowUps(probe.out, "parse_section_threads"), probe.meta,
                        {"section_url", "section_title"})

\* C30: a page of thread 2's chain served at thread 1's address, with a
\* post and two follow-ups
C30_Witness ==
    /\ probe.fn = "next_pages" /\ probe.done
    /\ probe.meta.scope = "thread"
    /\ probe.meta.thread_id = StrV("2")
    /\ Len(FollowUps(probe.out, "parse_thread_posts")) = 2
    /\ probe.out[2].item.kind = "ForumPostItem"
    /\ probe.out[3].req.meta.thread_id = StrV("2")

\* The follow-ups of a section page are there and carry its context
SectionFollowUpReached ==
    /\ probe.fn = "next_pages" /\ probe.done
    /\ probe.meta.scope = "section"
    /\ probe.meta.section_title = StrV("Inna")
    /\ Len(FollowUps(probe.out, "parse_section_threads")) = 1
    /\ probe.out[Len(probe.out)].req.meta.section_title = StrV("Inna")

\* All posts stored by the crawls of one site carry the same thread id
OneThreadIdPerChain ==
    \A q1, q2 \in pipeline.db.posts : q1.thread_id = q2.thread_id

\* Count texts that are missing or no number
NotNumbers == {NoneV, StrV(""), StrV(" "), StrV("-"), StrV("12a"), StrV("1 234")}

\* Post links that are missing or hold no numeric p
NoPostNumber == {NoneV, StrV(""), StrV("viewtopic.php?t=1"), StrV("viewtopic.php?p=abc")}

\* C31: a thread row yields its Thread entity whatever its count texts are,
\* with 0 for a count that is missing or no number; a post row yields its
\* Post entity whatever its link is, with sequence number none for a link
\* that is missing or holds no numeric p.
C31_MalformedNumbersDefault ==
    (probe.fn = "one_row" /\ probe.done) =>
        IF probe.scope = "section"
        THEN /\ Len(ItemsOf(probe.out, "ForumThreadItem")) = 1
             /\ probe.row.replies \in NotNumbers
                    => ItemsOf(probe.out, "ForumThreadItem")[1].item.replies = IntV(0)
             /\ probe.row.views \in NotNumbers
                    => ItemsOf(probe.out, "ForumThreadItem")[1].item.views = IntV(0)
        ELSE /\ Len(ItemsOf(probe.out, "ForumPostItem")) = 1
             /\ probe.row.post_link \in NoPostNumber
                    => ItemsOf(probe.out, "ForumPostItem")[1].item.post_number = NoneV

\* C31: a thread row without a reply count and with a view count of "12a"
C31_Witness ==
    /\ probe.fn = "one_row" /\ probe.done
    /\ probe.scope = "section"
    /\ probe.row.replies = NoneV
    /\ probe.row.views = StrV("12a")
    /\ probe.out[1].item.kind = "ForumThreadItem"
    /\ probe.out[1].item.replies = IntV(0)
    /\ probe.out[1].item.views = IntV(0)

\* Counts and sequence numbers that are numbers are read as int() reads them
NumbersAreRead ==
    (probe.fn = "one_row" /\ probe.done) =>
        IF probe.scope = "section"
        THEN /\ probe.row.replies = StrV(" 3 ") => probe.out[1].item.replies = IntV(3)
             /\ probe.row.replies = StrV("-3") => probe.out[1].item.replies = IntV(0 - 3)
             /\ probe.row.views = StrV("1_000") => probe.out[1].item.views = IntV(1000)
        ELSE probe.row.post_link = StrV("viewtopic.php?p=11#p11")
                => ItemsOf(probe.out, "ForumPostItem")[1].item.post_number = IntV(11)

\* The thread row is stored under the sections row with this URL
StoredUnderSectionAt(t, url) ==
    \E s \in pipeline.db.sections : s.url = url /\ t.section_id = IntV(s.id)

\* C32: a thread stored with its section referenced by URL, in section_url
\* or as a key in section_id that the cache of this run knows, is stored
\* under the sections row with that URL.
C32_ThreadResolvesToTheSectionOfItsUrl ==
    (Called("ForumThreadItem") /\ ~last.raised) =>
        \A t \in last.inserted.threads :
            /\ (~Truthy(Get(last.item, "section_id")) /\ Truthy(Get(last.item, "section_url")))
                  => StoredUnderSectionAt(t, last.item.section_url)
            /\ (Get(last.item, "section_id").k = "str"
                 /\ last.item.section_id.s \in DOMAIN pipeline.section_url_to_id)
                  => StoredUnderSectionAt(t, last.item.section_id)

\* A thread referenced by section_url is stored under that section
ThreadBySectionUrl ==
    (Called("ForumThreadItem") /\ ~last.raised) =>
        \A t \in last.inserted.threads :
            (~Truthy(Get(last.item, "section_id")) /\ Truthy(Get(last.item, "section_url")))
                => StoredUnderSectionAt(t, last.item.section_url)

\* C33: a post that replaces the stored row of its (thread_id, post_number)
\* keeps that row's id.
C33_ReplacedPostKeepsItsId ==
    (Called("ForumPostItem") /\ ~last.raised) =>
        \A old \in last.deleted.posts :
            \E new \in pipeline.db.posts :
                /\ new.thread_id = old.thread_id
                /\ new.post_number = old.post_number
                /\ new.id = old.id

\* C34: no two posts rows share their (thread_id, post_number) pair, a pair
\* without a post number included.
C34_OnePostPerThreadAndNumber ==
    \A q1, q2 \in pipeline.db.posts :
        (q1.thread_id = q2.thread_id /\ q1.post_number = q2.post_number) => q1.id = q2.id

\* No two posts rows share a pair that has a post number
OnePostPerNumberedPair ==
    \A q1, q2 \in pipeline.db.posts :
        (/\ q1.thread_id = q2.thread_id /\ q1.post_number = q2.post_number
         /\ q1.thread_id # NoneV /\ q1.post_number # NoneV) => q1.id = q2.id

C36_FailedThreadLeavesNothing ==
    (Called("ForumThreadItem") /\ last.raised) =>
        /\ pipeline.db.sections = disk.sections
        /\ \A u \in DOMAIN pipeline.section_url_to_id :
               \E s \in disk.sections : s.url = StrV(u)

\* The placeholder of a failed thread upsert, committed by a later upsert
PlaceholderCommittedLater ==
    /\ Called("ForumUserItem") /\ ~last.raised
    /\ pipeline.db.threads = {}
    /\ \E s \in disk.sections : s.url = StrV(S2) /\ s.forum_id = NoneV

\* C37: at no time do two crawl processes of the scrape command run, and
\* the crawl of a forum starts only after the crawls of the forums before
\* it have exited.
C37_CrawlsAreSerialized ==
    probe.fn = "scrape" =>
        /\ Cardinality(probe.running) <= 1
        /\ probe.running \subseteq {probe.idx}
        /\ \A k \in 1..(probe.idx - 1) : k \in probe.exited

\* C37: the second forum's crawl runs and has written, after the first
\* forum's crawl has exited and left its row in the store
C37_Witness ==
    /\ probe.fn = "scrape"
    /\ Len(probe.forums) = 2
    /\ probe.idx = 2
    /\ probe.running = {2}
    /\ probe.exited = {1}
    /\ probe.wrote
    /\ Cardinality(disk.forums) = 2

CacheNames ==
    {"forum_url_to_id", "forum_name_to_id", "section_url_to_id", "thread_url_to_id",
     "user_name_to_id"}

\* The tables in ts hold the rows they held, and have given out no id
SameTables(ts) ==
    \A t \in ts : /\ pipeline'.db[t] = pipeline.db[t]
                  /\ pipeline'.db.seq[t] = pipeline.db.seq[t]

SameCaches(cs) == \A c \in cs : pipeline'[c] = pipeline[c]

\* The table and the caches an upsert of each class may change, in the
\* store as the reconciler sees it
C38_Step ==
    (nops' = nops + 1 /\ last'.op = "process_item") =>
        CASE last'.item.kind = "ForumItem" ->
                /\ SameTables(Tables \ {"forums"})
                /\ SameCaches(CacheNames \ {"forum_url_to_id", "forum_name_to_id"})
          [] last'.item.kind = "ForumSectionItem" ->
                /\ SameTables(Tables \ {"sections"})
                /\ SameCaches(CacheNames \ {"section_url_to_id"})
          [] last'.item.kind = "ForumThreadItem" ->
                /\ SameTables(Tables \ {"sections", "threads"})
                /\ SameCaches(CacheNames \ {"section_url_to_id", "thread_url_to_id"})
                /\ pipeline.db.sections \subseteq pipeline'.db.sections
                /\ Cardinality(pipeline'.db.sections \ pipeline.db.sections) <= 1
                /\ \A s \in pipeline'.db.sections \ pipeline.db.sections :
                       s.forum_id = NoneV /\ s.url = Get(last'.item, "section_url")
          [] last'.item.kind = "ForumUserItem" ->
                /\ SameTables(Tables \ {"users"})
                /\ SameCaches(CacheNames \ {"user_name_to_id"})
          [] last'.item.kind = "ForumPostItem" ->
                /\ SameTables(Tables \ {"posts"})
                /\ SameCaches(CacheNames)
          [] OTHER ->
                /\ pipeline' = pipeline
                /\ disk' = disk

\* C38: an upsert changes only the table and the caches of its class; a
\* thread upsert may add one placeholder sections row besides; an item of
\* no entity class changes neither the store nor the caches.
C38_UpsertsKeepToTheirTable == [][C38_Step]_vars

\* C38: a user is stored after a post that names it, and the post still
\* has no user_id
C38_Witness ==
    /\ Called("ForumUserItem")
    /\ last.inserted.users # {}
    /\ \E q \in pipeline.db.posts :
          /\ q.user_id = NoneV
          /\ \E u \in last.inserted.users : u.username = q.username

\* Direct-thread mode on a URL without a t parameter, once the request for
\* the URL has been fetched and what the handler gave is reconciled
NoThreadIdCrawled ==
    /\ Truthy(crawl.only_thread_url)
    /\ TParam(crawl.only_thread_url.s) = NoneV
    /\ pipeline.connection = "open"
    /\ crawl.fetched >= 1
    /\ crawl.outbox = <<>>

\* C39: direct-thread mode on a URL without a t parameter stores the forum
\* row, the section row when the URL names a section, and the thread row,
\* and no user and no post.
C39_NoThreadIdStoresPlaceholdersOnly ==
    NoThreadIdCrawled =>
        /\ pipeline.db.forums # {}
        /\ Truthy(FParam(crawl.only_thread_url.s)) => pipeline.db.sections # {}
        /\ \E r \in pipeline.db.threads : r.url = crawl.only_thread_url
        /\ pipeline.db.users = {}
        /\ pipeline.db.posts = {}

\* Without a thread id the thread page gives nothing: no entity and no
\* request are left once it has been fetched, and no user and no post is
\* ever stored
NoThreadIdNoPosts ==
    (Truthy(crawl.only_thread_url) /\ TParam(crawl.only_thread_url.s) = NoneV) =>
        /\ pipeline.db.users = {}
        /\ pipeline.db.posts = {}
        /\ crawl.fetched >= 1 => (crawl.outbox = <<>> /\ crawl.pending = <<>>)

\* With a section in the URL the three placeholders are stored
NoThreadIdWithSection ==
    (NoThreadIdCrawled /\ crawl.only_thread_url = StrV(P11InSection)) =>
        /\ pipeline.db.forums # {}
        /\ ThreadStoredUnder(pipeline.db, StrV(P11InSection), StrV(S1))

====
